---- MODULE Spec2Model ----
(***************************************************************************)
(* WallpaperChanger: directory resolution, round-robin selection and the   *)
(* durable state file (src/src/state.py, src/src/config.py,                *)
(* src/src/wallpaper.py, src/src/cli.py).                                  *)
(***************************************************************************)
EXTENDS Integers, Sequences, FiniteSets, TLC

(***************************************************************************)
(* Python values, as the state dictionary holds them.  Every kind has its  *)
(* own field names, so two values of different kinds are simply unequal.   *)
(***************************************************************************)
PyNone == [t |-> "none"]
PyBool(b) == [t |-> "bool", b |-> b]
PyInt(n) == [t |-> "int", n |-> n]
PyStr(s) == [t |-> "str", s |-> s]
PyList(xs) == [t |-> "list", items |-> xs]
PyDict(ks, vs) == [t |-> "dict", keys |-> ks, vals |-> vs]

EmptyDict == PyDict(<<>>, <<>>)

\* `k in d`
DictHas(d, k) == \E i \in 1..Len(d.keys) : d.keys[i] = k

DictIdx(d, k) == CHOOSE i \in 1..Len(d.keys) : d.keys[i] = k

\* `d[k]`
DictGet(d, k) == d.vals[DictIdx(d, k)]

\* The mutant's assignment writes the value under every key there is.
DictSetEvery(d, k, v) ==
    IF \E i \in 1..Len(d.keys) : d.keys[i] = k
    THEN [d EXCEPT !.vals = [i \in 1..Len(d.vals) |-> v]]
    ELSE [d EXCEPT !.keys = Append(@, k), !.vals = [i \in 1..(Len(d.vals) + 1) |-> v]]

\* `d[k] = v`: an existing key keeps its place, a new key is appended.
DictSet(d, k, v) ==
    IF DictHas(d, k)
    THEN [d EXCEPT !.vals[DictIdx(d, k)] = v]
    ELSE [d EXCEPT !.keys = Append(@, k), !.vals = Append(@, v)]

\* isinstance(v, int): bool is a subclass of int in Python.
IsInt(v) == v.t \in {"int", "bool"}

\* The integer a Python int or bool stands for in arithmetic and indexing.
IntOf(v) == IF v.t = "bool" THEN (IF v.b THEN 1 ELSE 0) ELSE v.n

(***************************************************************************)
(* JSON text, as a sequence of tokens (white space and indentation are     *)
(* not modelled).  A file that was cut short is a prefix of such a         *)
(* sequence; text that is no JSON at all holds a junk token.               *)
(***************************************************************************)
Tok(p) == [k |-> p]
NumTok(n) == [k |-> "num", n |-> n]
StrTok(s) == [k |-> "string", s |-> s]
Junk == Tok("junk")

RECURSIVE Dump(_)
RECURSIVE DumpItems(_, _)
RECURSIVE DumpPairs(_, _, _)

\* json.dump: the token sequence of a value.
Dump(v) ==
    CASE v.t = "none" -> <<Tok("null")>>
      [] v.t = "bool" -> <<Tok(IF v.b THEN "true" ELSE "false")>>
      [] v.t = "int" -> <<NumTok(v.n)>>
      [] v.t = "str" -> <<StrTok(v.s)>>
      [] v.t = "list" -> <<Tok("[")>> \o DumpItems(v.items, 1) \o <<Tok("]")>>
      [] v.t = "dict" -> <<Tok("{")>> \o DumpPairs(v.keys, v.vals, 1) \o <<Tok("}")>>

DumpItems(xs, i) ==
    IF i > Len(xs) THEN <<>>
    ELSE (IF i > 1 THEN <<Tok(",")>> ELSE <<>>) \o Dump(xs[i]) \o DumpItems(xs, i + 1)

DumpPairs(ks, vs, i) ==
    IF i > Len(ks) THEN <<>>
    ELSE (IF i > 1 THEN <<Tok(",")>> ELSE <<>>)
         \o <<StrTok(ks[i]), Tok(":")>> \o Dump(vs[i]) \o DumpPairs(ks, vs, i + 1)

ParseFail == [ok |-> FALSE]
Parsed(v, n) == [ok |-> TRUE, val |-> v, next |-> n]

RECURSIVE ParseValue(_, _)
RECURSIVE ParseItems(_, _, _)
RECURSIVE ParsePairs(_, _, _)

\* One JSON value starting at token i: the value and the index after it.
ParseValue(ts, i) ==
    IF i > Len(ts) THEN ParseFail
    ELSE LET tk == ts[i] IN
         CASE tk.k = "null" -> Parsed(PyNone, i + 1)
           [] tk.k = "true" -> Parsed(PyBool(TRUE), i + 1)
           [] tk.k = "false" -> Parsed(PyBool(FALSE), i + 1)
           [] tk.k = "num" -> Parsed(PyInt(tk.n), i + 1)
           [] tk.k = "string" -> Parsed(PyStr(tk.s), i + 1)
           [] tk.k = "[" ->
                IF i + 1 <= Len(ts) /\ ts[i + 1].k = "]"
                THEN Parsed(PyList(<<>>), i + 2)
                ELSE ParseItems(ts, i + 1, <<>>)
           [] tk.k = "{" ->
                IF i + 1 <= Len(ts) /\ ts[i + 1].k = "}"
                THEN Parsed(EmptyDict, i + 2)
                ELSE ParsePairs(ts, i + 1, EmptyDict)
           [] OTHER -> ParseFail

ParseItems(ts, i, acc) ==
    LET r == ParseValue(ts, i) IN
    IF ~r.ok THEN ParseFail
    ELSE IF r.next > Len(ts) THEN ParseFail
    ELSE IF ts[r.next].k = "," THEN ParseItems(ts, r.next + 1, Append(acc, r.val))
    ELSE IF ts[r.next].k = "]" THEN Parsed(PyList(Append(acc, r.val)), r.next + 1)
    ELSE ParseFail

\* A repeated key keeps its first place and takes the last value, as a
\* Python dict does.
ParsePairs(ts, i, acc) ==
    IF i + 1 > Len(ts) THEN ParseFail
    ELSE IF ts[i].k # "string" \/ ts[i + 1].k # ":" THEN ParseFail
    ELSE LET r == ParseValue(ts, i + 2) IN
         IF ~r.ok THEN ParseFail
         ELSE IF r.next > Len(ts) THEN ParseFail
         ELSE IF ts[r.next].k = ","
              THEN ParsePairs(ts, r.next + 1, DictSet(acc, ts[i].s, r.val))
         ELSE IF ts[r.next].k = "}"
              THEN Parsed(DictSet(acc, ts[i].s, r.val), r.next + 1)
         ELSE ParseFail

\* json.loads: the whole text must be one value (else JSONDecodeError).
Loads(ts) ==
    LET r == ParseValue(ts, 1) IN
    IF r.ok /\ r.next = Len(ts) + 1 THEN r ELSE ParseFail

(***************************************************************************)
(* Wallpaper directories.  A directory holds a set of entry names; what    *)
(* each name is (a regular file or not, its suffix) is fixed by the table  *)
(* below, which lists every name in ascending code-point order, the order  *)
(* Python's sorted() gives (upper case sorts before lower case).           *)
(***************************************************************************)
NameOrder ==
    << [name |-> "B.JPG", suffix |-> ".JPG", file |-> TRUE, id |-> 2],
       [name |-> "a.jpg", suffix |-> ".jpg", file |-> TRUE, id |-> 1],
       [name |-> "c.png", suffix |-> ".png", file |-> TRUE, id |-> 3],
       [name |-> "d.jpeg", suffix |-> ".jpeg", file |-> TRUE, id |-> 6],
       [name |-> "notes.txt", suffix |-> ".txt", file |-> TRUE, id |-> 4],
       [name |-> "sub.jpg", suffix |-> ".jpg", file |-> FALSE, id |-> 5],
       [name |-> "z.jpg", suffix |-> ".jpg", file |-> TRUE, id |-> 7] >>

\* str.lower() on the suffixes of the table.
Lower(sfx) == IF sfx = ".JPG" THEN ".jpg" ELSE sfx

\* The default of [Images] extensions, each with its leading dot.
Extensions == {".png", ".jpg", ".jpeg"}

\* How many names of the table the directories of a model draw from.
MaxFiles == 4

FileNames == {NameOrder[i].name : i \in {j \in 1..Len(NameOrder) : NameOrder[j].id <= MaxFiles}}

\* A directory path that is missing (or is no directory), and one holding
\* the entries `names`.
NoDir == [isdir |-> FALSE, names |-> {}]
DirOf(names) == [isdir |-> TRUE, names |-> names]

RECURSIVE NamesFrom(_, _, _)
NamesFrom(dir, exts, i) ==
    IF i > Len(NameOrder) THEN <<>>
    ELSE LET e == NameOrder[i] IN
         (IF e.name \in dir.names /\ e.file /\ Lower(e.suffix) \in exts
          THEN <<e.name>> ELSE <<>>) \o NamesFrom(dir, exts, i + 1)

\* The broken listing of a mutant: the same files, in descending order.
RECURSIVE NamesFromReversed(_, _, _)
NamesFromReversed(dir, exts, i) ==
    IF i > Len(NameOrder) THEN <<>>
    ELSE LET e == NameOrder[i] IN
         NamesFromReversed(dir, exts, i + 1)
         \o (IF e.name \in dir.names /\ e.file /\ Lower(e.suffix) \in exts
             THEN <<e.name>> ELSE <<>>)

ListImagesUnsorted(dir, exts) == NamesFromReversed(dir, exts, 1)

\* sorted([f.name for f in directory.iterdir()
\*         if f.is_file() and f.suffix.lower() in extensions])
ListImages(dir, exts) == NamesFrom(dir, exts, 1)

InSeq(x, xs) == \E i \in 1..Len(xs) : xs[i] = x

StrList(names) == PyList([i \in 1..Len(names) |-> PyStr(names[i])])

(***************************************************************************)
(* src/src/state.py                                                        *)
(***************************************************************************)
CURRENT_STATE_VERSION == "1.0"

\* `state is None`: the run tracks no state.
NoState == [t |-> "nostate"]

\* A returned path, directory / name, and the None of a failed draw.
PathOf(dk, name) == [ok |-> TRUE, dir |-> dk, name |-> name]
NoPath == [ok |-> FALSE]

_initialize ==
    PyDict(<<"version", "last_run", "current_wallpapers", "round_robin">>,
           <<PyStr(CURRENT_STATE_VERSION), PyNone, EmptyDict, EmptyDict>>)

\* all_images[position] with Python's indexing: a negative index counts
\* from the end, and an index outside -N..N-1 raises IndexError.
IndexOk(all, p) == -Len(all) <= p /\ p < Len(all)
At(all, p) == all[(IF p < 0 THEN p + Len(all) ELSE p) + 1]

\* The mutant takes the image at the stored position, used or not.
SkipUsedNot(all, used, position, attempts) == position

\* The collision loop: while selected in used_images and attempts < N.
RECURSIVE SkipUsed(_, _, _, _)
SkipUsed(all, used, position, attempts) ==
    IF InSeq(At(all, position), used) /\ attempts < Len(all)
    THEN SkipUsed(all, used, (position + 1) % Len(all), attempts + 1)
    ELSE position

Drawn(path, st, used) == [path |-> path, state |-> st, used |-> used]

\* The position stored after a draw; the mutant forgets to advance it.
StoredPositionStuck(position, n) == position % n

\* The mutant advances the position without wrapping it.
StoredPositionUnwrapped(position, n) == position + 1

\* rr_state["position"] = (position + 1) % len(all_images)
StoredPosition(position, n) == (position + 1) % n

\* The mutant chooses among all the images, used or not.
RandomDrawAny(dk, all, used, r) ==
    LET selected == all[((r - 1) % Len(all)) + 1]
    IN  Drawn(PathOf(dk, selected), NoState, Append(used, selected))

\* The stateless branch: a random choice r among the images not yet used,
\* or among all of them when every one is used.
RandomDraw(dk, all, used, r) ==
    LET free == SelectSeq(all, LAMBDA img : ~InSeq(img, used))
        available == IF free = <<>> THEN all ELSE free
        selected == available[((r - 1) % Len(available)) + 1]
    IN  Drawn(PathOf(dk, selected), NoState, Append(used, selected))

\* The mutant replaces the stored image list and keeps the position.
ResetEntryKeepPosition(e, all) == DictSet(e, "images", StrList(all))

\* rr_state["images"] = all_images; rr_state["position"] = 0
ResetEntry(e, all) == DictSet(DictSet(e, "images", StrList(all)), "position", PyInt(0))

\* The round-robin branch.  An exception (a missing key, an index out of
\* range) is caught by the function, which then returns None; what was
\* stored before the exception stays stored.
RoundRobinDraw(dk, all, st, used) ==
    IF ~(st.t = "dict" /\ DictHas(st, "round_robin")
                       /\ DictGet(st, "round_robin").t = "dict")
    THEN Drawn(NoPath, st, used)
    ELSE
    LET rr0 == DictGet(st, "round_robin")
        fresh == PyDict(<<"images", "position">>, <<StrList(all), PyInt(0)>>)
        rr1 == IF DictHas(rr0, dk) THEN rr0 ELSE DictSet(rr0, dk, fresh)
        e1 == DictGet(rr1, dk)
        st1 == DictSet(st, "round_robin", rr1)
    IN  IF ~(e1.t = "dict" /\ DictHas(e1, "images")) THEN Drawn(NoPath, st1, used)
        ELSE
        LET e2 == IF DictGet(e1, "images") # StrList(all) THEN ResetEntry(e1, all) ELSE e1
            st2 == DictSet(st, "round_robin", DictSet(rr1, dk, e2))
        IN  IF ~(DictHas(e2, "position") /\ IsInt(DictGet(e2, "position")))
            THEN Drawn(NoPath, st2, used)
            ELSE
            LET stored == IntOf(DictGet(e2, "position"))
                clamp == stored >= Len(all)
                position == IF clamp THEN 0 ELSE stored
                e3 == IF clamp THEN DictSet(e2, "position", PyInt(0)) ELSE e2
                st3 == DictSet(st, "round_robin", DictSet(rr1, dk, e3))
            IN  IF ~IndexOk(all, position) THEN Drawn(NoPath, st3, used)
                ELSE
                LET final == SkipUsed(all, used, position, 0)
                    selected == At(all, final)
                    e4 == DictSet(e3, "position", PyInt(StoredPosition(final, Len(all))))
                    st4 == DictSet(st, "round_robin", DictSet(rr1, dk, e4))
                IN  Drawn(PathOf(dk, selected), st4, Append(used, selected))

\* The mutant makes the entry of the directory before it looks at the
\* directory.
next_wallpaper_eager(dk, dir, exts, st, used, r) ==
    IF ~dir.isdir \/ ListImages(dir, exts) = <<>>
    THEN Drawn(NoPath,
               IF st = NoState THEN st
               ELSE DictSet(st, "round_robin",
                            DictSet(DictGet(st, "round_robin"), dk,
                                    PyDict(<<"images", "position">>, <<StrList(<<>>), PyInt(0)>>))),
               used)
    ELSE IF st = NoState THEN RandomDraw(dk, ListImages(dir, exts), used, r)
    ELSE RoundRobinDraw(dk, ListImages(dir, exts), st, used)

\* next_wallpaper(directory, extensions, state, used_images); r is the
\* outcome of random.choice in the stateless branch.
next_wallpaper(dk, dir, exts, st, used, r) ==
    IF ~dir.isdir THEN Drawn(NoPath, st, used)
    ELSE LET all == ListImages(dir, exts) IN
         IF all = <<>> THEN Drawn(NoPath, st, used)
         ELSE IF st = NoState THEN RandomDraw(dk, all, used, r)
         ELSE RoundRobinDraw(dk, all, st, used)

\* `sub in s` for the strings a state file of the model can hold as its
\* top-level value: a substring test.
AllFieldNames == "version current_wallpapers round_robin"
StrContains(s, sub) ==
    \/ s = sub
    \/ s = AllFieldNames /\ sub \in {"version", "current_wallpapers", "round_robin"}

\* `field in state` where state is whatever json.loads returned: a key test
\* on a dict, a membership test on a list, a substring test on a string,
\* and TypeError on None, a bool or a number.
FieldIn(field, state) ==
    CASE state.t = "dict" -> IF DictHas(state, field) THEN "yes" ELSE "no"
      [] state.t = "list" -> IF InSeq(PyStr(field), state.items) THEN "yes" ELSE "no"
      [] state.t = "str" -> IF StrContains(state.s, field) THEN "yes" ELSE "no"
      [] OTHER -> "TypeError"

RequiredFields == <<"version", "current_wallpapers", "round_robin">>

\* The mutant's rule set: the type of round_robin is not checked.
BasicStructureNoTypes(state) ==
    LET tests == [i \in 1..3 |-> FieldIn(RequiredFields[i], state)] IN
    IF \E i \in 1..3 : tests[i] = "TypeError" /\ \A j \in 1..(i - 1) : tests[j] = "yes"
    THEN "TypeError"
    ELSE IF \E i \in 1..3 : tests[i] = "no" THEN "invalid"
    ELSE IF state.t # "dict" THEN "TypeError"
    ELSE "valid"

\* "valid", "invalid" (the function returns False) or "TypeError" (it
\* raises): the fields are tested in order and the first missing one ends
\* the test; state["version"] on a list or a string raises TypeError.
_validate_basic_structure(state) ==
    LET tests == [i \in 1..3 |-> FieldIn(RequiredFields[i], state)] IN
    IF \E i \in 1..3 : tests[i] = "TypeError" /\ \A j \in 1..(i - 1) : tests[j] = "yes"
    THEN "TypeError"
    ELSE IF \E i \in 1..3 : tests[i] = "no" THEN "invalid"
    ELSE IF state.t # "dict" THEN "TypeError"
    ELSE IF DictGet(state, "version").t # "str" THEN "invalid"
    ELSE IF DictGet(state, "current_wallpapers").t # "dict" THEN "invalid"
    ELSE IF DictGet(state, "round_robin").t # "dict" THEN "invalid"
    ELSE "valid"

RoundRobinEntryOk(e) ==
    /\ e.t = "dict"
    /\ DictHas(e, "images") /\ DictHas(e, "position")
    /\ DictGet(e, "images").t = "list"
    /\ IsInt(DictGet(e, "position"))

_validate_round_robin(round_robin) ==
    IF \A i \in 1..Len(round_robin.vals) : RoundRobinEntryOk(round_robin.vals[i])
    THEN "valid" ELSE "invalid"

_validate(state) ==
    LET basic == _validate_basic_structure(state) IN
    IF basic # "valid" THEN basic
    ELSE _validate_round_robin(DictGet(state, "round_robin"))

(***************************************************************************)
(* The state file, its temp file and the quarantined copies.  A file is    *)
(* its token sequence; the copies are named by the second they were made.  *)
(***************************************************************************)
NoFile == [exists |-> FALSE, data |-> <<>>, readable |-> FALSE]
FileOf(data) == [exists |-> TRUE, data |-> data, readable |-> TRUE]

\* The clock stops here: the last second a model reaches.
MaxClock == 1

EmptyDisk == [state |-> NoFile, temp |-> NoFile, backups |-> [s \in 0..MaxClock |-> NoFile]]

\* The mutant leaves the corrupted file where it is.
_backup_corrupted_skip(disk, now) == disk

\* _backup_corrupted: rename the state file to <name>.corrupted.<second>;
\* a rename replaces whatever already has that name.
_backup_corrupted(disk, now) ==
    [disk EXCEPT !.backups[now] = disk.state, !.state = NoFile]

Loaded(raised, st, disk) == [raised |-> raised, state |-> st, disk |-> disk]

\* load(state_file) with no other process at work.  raised names the
\* exception that leaves the function, "none" when it returns.
load(disk, now) ==
    IF ~disk.state.exists THEN Loaded("none", _initialize, disk)
    ELSE IF ~disk.state.readable THEN Loaded("none", _initialize, disk)
    ELSE LET r == Loads(disk.state.data) IN
         IF ~r.ok THEN Loaded("none", _initialize, _backup_corrupted(disk, now))
         ELSE LET v == _validate(r.val) IN
              CASE v = "TypeError" -> Loaded("TypeError", PyNone, disk)
                [] v = "invalid" -> Loaded("none", _initialize, _backup_corrupted(disk, now))
                [] OTHER -> Loaded("none", r.val, disk)

Saved(ok, disk) == [ok |-> ok, disk |-> disk]

\* What the mutant writes: the document without its last_run field.
DumpWithoutLastRun(st) ==
    IF ~DictHas(st, "last_run") THEN Dump(st) ELSE
    Dump(PyDict(SelectSeq(st.keys, LAMBDA k : k # "last_run"),
                [i \in 1..(Len(st.keys) - 1) |->
                    st.vals[IF \E j \in 1..i : st.keys[j] = "last_run" THEN i + 1 ELSE i]]))

\* json.dump(state, f, indent=2, ensure_ascii=False)
DumpState(st) == Dump(st)

\* save(state_file, state) with no other process at work: the temp file is
\* opened (truncated), locked, written, unlocked and renamed onto the
\* state file.
save(disk, st) ==
    Saved(TRUE, [disk EXCEPT !.state = FileOf(DumpState(st)), !.temp = NoFile])

\* The system calls of save that can fail with an OSError.
SaveCalls == {"mkdir", "open", "write", "rename", "unlink"}

\* except (OSError, PermissionError): if temp_file.exists(): with
\* suppress(OSError): temp_file.unlink(); return False
save_cleanup(disk, faults) ==
    Saved(FALSE, IF disk.temp.exists /\ "unlink" \notin faults
                 THEN [disk EXCEPT !.temp = NoFile] ELSE disk)

\* save(state_file, state) in one process when the calls in `faults` fail.
\* mkdir(parents=True, exist_ok=True) can only fail where the directory,
\* and so every file in it, is missing; a failed write leaves a part of
\* the document in the temp file.
save_failing(disk, st, faults) ==
    IF "mkdir" \in faults /\ ~disk.state.exists /\ ~disk.temp.exists
    THEN Saved(FALSE, disk)
    ELSE IF "open" \in faults THEN save_cleanup(disk, faults)
    ELSE IF "write" \in faults
    THEN save_cleanup([disk EXCEPT !.temp = FileOf(SubSeq(DumpState(st), 1,
                                                         Len(DumpState(st)) \div 2))], faults)
    ELSE IF "rename" \in faults
    THEN save_cleanup([disk EXCEPT !.temp = FileOf(DumpState(st))], faults)
    ELSE save(disk, st)

\* update(state, wallpaper_paths, monitors): timestamp is now.isoformat().
RECURSIVE ZipInto(_, _, _, _, _)
ZipInto(cw, monitors, paths, timestamp, i) ==
    IF i > Len(monitors) \/ i > Len(paths) THEN cw
    ELSE ZipInto(DictSet(cw, monitors[i],
                         PyDict(<<"filename", "timestamp">>,
                                <<PyStr(paths[i].name), PyStr(timestamp)>>)),
                 monitors, paths, timestamp, i + 1)

\* The mutant adds the monitors of the run to those recorded before.
update_merging(st, paths, monitors, timestamp) ==
    DictSet(DictSet(st, "last_run", PyStr(timestamp)),
            "current_wallpapers",
            ZipInto(DictGet(st, "current_wallpapers"), monitors, paths, timestamp, 1))

update(st, paths, monitors, timestamp) ==
    DictSet(DictSet(st, "last_run", PyStr(timestamp)),
            "current_wallpapers", ZipInto(EmptyDict, monitors, paths, timestamp, 1))

(***************************************************************************)
(* State of the models.                                                    *)
(***************************************************************************)
VARIABLES
    dirs,       \* the wallpaper directories: directory key -> directory
    state,      \* the in-memory state dictionary of the process (or NoState)
    used,       \* used_images of the running select_wallpapers
    disk,       \* the state file, its temp file and the quarantined copies
    now,        \* the clock, in seconds
    last,       \* the last operation, with its arguments and its result
    calls,      \* per directory: the draws on it since the start, while it is steady
    steady,     \* per directory: nothing but empty-used draws and save/load so far
    changes,    \* how many directory changes and state-file edits took place
    fs,         \* the state path, temp path and copy path with their inodes, for racing processes
    procs,      \* the racing processes: where each one is in save or load
    run,        \* the run of the program: where it is, what it found, what it did
    cfg         \* the [Directories] of the configuration: field -> path

vars == <<dirs, state, used, disk, now, last, calls, steady, changes, fs, procs, run, cfg>>

\* The variables of the models with one process at work.
oneVars == <<dirs, state, used, disk, now, last, calls, steady, changes, run, cfg>>

\* No configuration under study.
NoConfig == [on |-> FALSE]

\* No run of the whole program.
NoRun == [pc |-> "none"]

\* No racing processes.
NoRace == [on |-> FALSE]

DirKeys == {"/w/primary", "/w/left"}

NoOp == [op |-> "none"]

(***************************************************************************)
(* SpecRR: one process drawing from a directory with its state kept in     *)
(* memory or saved and loaded again, while the directory changes and the   *)
(* state file is edited by hand between runs.                              *)
(***************************************************************************)
\* Draws counted per directory, directory changes and edits per behaviour.
MaxCalls == 7
MaxChanges == 2

Contents == {DirOf(ns) : ns \in SUBSET FileNames} \cup {NoDir}

\* The directories SpecRR draws from.
RRKeys == {"/w/primary"}

InitRR ==
    /\ fs = NoRace /\ procs = NoRace /\ run = NoRun /\ cfg = NoConfig
    /\ dirs \in {f \in [DirKeys -> Contents] : \A dk \in DirKeys \ RRKeys : f[dk] = NoDir}
    /\ state = _initialize
    /\ used = <<>>
    /\ disk = EmptyDisk
    /\ now = 0
    /\ last = NoOp
    /\ calls = [dk \in DirKeys |-> 0]
    /\ steady = [dk \in DirKeys |-> TRUE]
    /\ changes = 0

\* What a draw found and what it returned.  stale: an entry was stored for
\* the directory and its image list was not the current listing.
DrawRecord(dk, u, r) ==
    LET rr == DictGet(state, "round_robin") IN
    [op |-> "draw", dk |-> dk, usedBefore |-> u, path |-> r.path,
     had |-> DictHas(rr, dk),
     pos |-> IF DictHas(rr, dk) THEN IntOf(DictGet(DictGet(rr, dk), "position")) ELSE 0,
     stale |-> DictHas(rr, dk)
               /\ DictGet(DictGet(rr, dk), "images")
                    # StrList(ListImages(dirs[dk], Extensions))]

\* next_wallpaper(directory, extensions, state, []) on directory dk.
Draw(dk) ==
    LET r == next_wallpaper(dk, dirs[dk], Extensions, state, <<>>, 1) IN
    /\ state' = r.state
    /\ last' = DrawRecord(dk, <<>>, r)
    /\ calls' = [calls EXCEPT ![dk] = IF steady[dk] /\ @ < MaxCalls THEN @ + 1 ELSE 0]
    /\ steady' = [steady EXCEPT ![dk] = @ /\ calls[dk] < MaxCalls]
    /\ UNCHANGED <<fs, procs, run, cfg, dirs, used, disk, now, changes>>

\* The end of a run and the start of the next: save(path, state), then
\* state = load(path).
Persist ==
    LET s == save(disk, state)
        l == load(s.disk, now)
    IN  /\ s.ok /\ l.raised = "none"
        /\ state' = l.state
        /\ disk' = l.disk
        /\ last' = [op |-> "persist"]
        /\ UNCHANGED <<fs, procs, run, cfg, fs, procs, dirs, used, now, calls, steady, changes>>

\* A file is added to a directory or removed from it (a rename is both).
ChangeDir(dk, name) ==
    /\ changes < MaxChanges
    /\ dirs[dk].isdir
    /\ dirs' = [dirs EXCEPT ![dk].names =
                  IF name \in @ THEN @ \ {name} ELSE @ \cup {name}]
    /\ steady' = [steady EXCEPT ![dk] = FALSE]
    /\ calls' = [calls EXCEPT ![dk] = 0]
    /\ changes' = changes + 1
    /\ last' = [op |-> "change", dk |-> dk]
    /\ UNCHANGED <<fs, procs, run, cfg, state, used, disk, now>>

\* The positions a hand-edited state file may hold for a directory.
EditedPositions == {-(MaxFiles + 1), -2, -1, 1, 2, MaxFiles}

\* Between two runs the saved state file is edited by hand: the position
\* of directory dk becomes p.  The next run loads the edited file.
EditPosition(dk, p) ==
    /\ changes < MaxChanges
    /\ DictHas(DictGet(state, "round_robin"), dk)
    /\ LET rr == DictGet(state, "round_robin")
           edited == DictSet(state, "round_robin",
                             DictSet(rr, dk, DictSet(DictGet(rr, dk), "position", PyInt(p))))
           l == load(save(disk, edited).disk, now)
       IN  /\ l.raised = "none"
           /\ state' = l.state
           /\ disk' = l.disk
    /\ steady' = [steady EXCEPT ![dk] = FALSE]
    /\ calls' = [calls EXCEPT ![dk] = 0]
    /\ changes' = changes + 1
    /\ last' = [op |-> "edit", dk |-> dk]
    /\ UNCHANGED <<fs, procs, run, cfg, dirs, used, now>>

NextRR ==
    \/ \E dk \in RRKeys : Draw(dk)
    \/ Persist
    \/ \E dk \in RRKeys, name \in FileNames : ChangeDir(dk, name)
    \/ \E dk \in RRKeys, p \in EditedPositions : EditPosition(dk, p)

SpecRR == InitRR /\ [][NextRR]_vars

(***************************************************************************)
(* SpecPair: one process drawing from two directories in any order, each   *)
(* draw with an empty used-set, the state kept in memory or saved and      *)
(* loaded in between.                                                      *)
(***************************************************************************)
PairPrimary == {NoDir, DirOf({"B.JPG"}), DirOf(FileNames)}
PairLeft == {DirOf({"a.jpg", "c.png"}), DirOf(FileNames)}

InitPair ==
    /\ fs = NoRace /\ procs = NoRace /\ run = NoRun /\ cfg = NoConfig
    /\ dirs \in {[dk \in DirKeys |-> IF dk = "/w/primary" THEN a ELSE b] :
                    a \in PairPrimary, b \in PairLeft}
    /\ state = _initialize
    /\ used = <<>>
    /\ disk = EmptyDisk
    /\ now = 0
    /\ last = NoOp
    /\ calls = [dk \in DirKeys |-> 0]
    /\ steady = [dk \in DirKeys |-> TRUE]
    /\ changes = 0

NextPair ==
    \/ \E dk \in DirKeys : Draw(dk)
    \/ Persist

SpecPair == InitPair /\ [][NextPair]_vars

(***************************************************************************)
(* SpecLoad: one process loading, updating and saving the state file,      *)
(* which starts with any content of the catalogue below and is rewritten   *)
(* or made unreadable from outside between the operations.                 *)
(***************************************************************************)
Doc(version, last_run, cw, rr) ==
    PyDict(<<"version", "last_run", "current_wallpapers", "round_robin">>,
           <<version, last_run, cw, rr>>)

StampA == "2026-01-01T08:00:00"
StampB == "2026-03-01T20:30:00"

EntryOf(images, position) == PyDict(<<"images", "position">>, <<images, position>>)
OneDir(entry) == PyDict(<<"/w/primary">>, <<entry>>)
OneMonitor(name) ==
    PyDict(<<"DP-1">>, <<PyDict(<<"filename", "timestamp">>, <<PyStr(name), PyStr(StampA)>>)>>)

FullDoc ==
    Doc(PyStr("1.0"), PyStr(StampA), OneMonitor("a.jpg"),
        OneDir(EntryOf(StrList(<<"B.JPG", "a.jpg">>), PyInt(1))))

\* Documents the validation accepts.
AcceptedDocs ==
    { _initialize,
      FullDoc,
      Doc(PyStr("0.9"), PyInt(5), EmptyDict,
          OneDir(PyDict(<<"images", "position", "note">>,
                        <<PyList(<<PyInt(1), PyNone>>), PyBool(TRUE), EmptyDict>>))),
      Doc(PyStr("1.0"), PyNone, EmptyDict, OneDir(EntryOf(StrList(<<"a.jpg">>), PyInt(-7)))),
      PyDict(<<"round_robin", "note", "current_wallpapers", "version">>,
             <<EmptyDict, PyList(<<>>), EmptyDict, PyStr("1.0")>>) }

\* JSON objects that break a rule of the validation.
RejectedDocs ==
    { PyDict(<<"last_run", "current_wallpapers", "round_robin">>, <<PyNone, EmptyDict, EmptyDict>>),
      EmptyDict,
      Doc(PyInt(1), PyNone, EmptyDict, EmptyDict),
      Doc(PyStr("1.0"), PyNone, PyList(<<>>), EmptyDict),
      Doc(PyStr("1.0"), PyNone, EmptyDict, PyNone),
      Doc(PyStr("1.0"), PyNone, EmptyDict, OneDir(PyList(<<>>))),
      Doc(PyStr("1.0"), PyNone, EmptyDict, OneDir(PyDict(<<"images">>, <<StrList(<<"a.jpg">>)>>))),
      Doc(PyStr("1.0"), PyNone, EmptyDict, OneDir(EntryOf(PyStr("a.jpg"), PyInt(0)))),
      Doc(PyStr("1.0"), PyNone, EmptyDict, OneDir(EntryOf(StrList(<<"a.jpg">>), PyStr("0")))),
      Doc(PyStr("1.0"), PyNone, EmptyDict, OneDir(EntryOf(StrList(<<"a.jpg">>), PyNone))) }

\* JSON texts whose top level is no object.
TopLevelOthers ==
    { PyNone, PyInt(5), PyBool(TRUE), PyList(<<>>),
      PyList(<<PyStr("version"), PyStr("current_wallpapers"), PyStr("round_robin")>>),
      PyStr("abc"), PyStr(AllFieldNames) }

\* Texts that are no JSON: an empty file, junk, a document cut short, a
\* document followed by more text.
BrokenTexts ==
    { <<>>, <<Junk>>, SubSeq(Dump(FullDoc), 1, 9), Dump(FullDoc) \o <<Tok("}")>> }

\* A text with a repeated key: the last value counts.
RepeatedKeyText ==
    <<Tok("{"), StrTok("version"), Tok(":"), NumTok(1), Tok(","),
      StrTok("version"), Tok(":"), StrTok("1.0"), Tok(","),
      StrTok("current_wallpapers"), Tok(":"), Tok("{"), Tok("}"), Tok(","),
      StrTok("round_robin"), Tok(":"), Tok("{"), Tok("}"), Tok("}")>>

FileContents ==
    {Dump(d) : d \in AcceptedDocs \cup RejectedDocs \cup TopLevelOthers}
        \cup BrokenTexts \cup {RepeatedKeyText}

\* What the file is rewritten to from outside while the model runs.
Rewrites == {<<Junk>>, Dump(PyNone), Dump(FullDoc), Dump(EmptyDict)}

InitLoad ==
    /\ fs = NoRace /\ procs = NoRace /\ run = NoRun /\ cfg = NoConfig
    /\ disk \in {[EmptyDisk EXCEPT !.state = f] : f \in {NoFile} \cup {FileOf(c) : c \in FileContents}}
    /\ state = NoState
    /\ now = 0
    /\ last = NoOp
    /\ changes = 0
    /\ dirs = [dk \in DirKeys |-> NoDir]
    /\ used = <<>>
    /\ calls = [dk \in DirKeys |-> 0]
    /\ steady = [dk \in DirKeys |-> TRUE]

\* state = load(state_file).  The record keeps what the call found: the
\* file it met, the copies that existed, and the save it follows, if any.
Load ==
    LET l == load(disk, now) IN
    /\ state' = IF l.raised = "none" THEN l.state ELSE state
    /\ disk' = l.disk
    /\ last' = [op |-> "load", raised |-> l.raised, found |-> disk.state,
                copies |-> {s \in 0..MaxClock : disk.backups[s].exists},
                afterSave |-> last.op = "save" /\ last.ok,
                saved |-> IF last.op = "save" /\ last.ok THEN last.arg ELSE PyNone]
    /\ UNCHANGED <<fs, procs, run, cfg, dirs, used, now, calls, steady, changes>>

\* save(state_file, state) of the state the process holds.
Save ==
    /\ state # NoState
    /\ LET s == save(disk, state) IN
       /\ disk' = s.disk
       /\ last' = [op |-> "save", ok |-> s.ok, arg |-> state]
    /\ UNCHANGED <<fs, procs, run, cfg, dirs, state, used, now, calls, steady, changes>>

\* update(state, paths, monitors) after a selection for one monitor.
Update(name) ==
    /\ state # NoState
    /\ state' = update(state, <<PathOf("/w/primary", name)>>, <<"HDMI-1">>, StampB)
    /\ state' # state
    /\ last' = [op |-> "update"]
    /\ UNCHANGED <<fs, procs, run, cfg, dirs, used, disk, now, calls, steady, changes>>

Tick ==
    /\ now < MaxClock
    /\ now' = now + 1
    /\ UNCHANGED <<fs, procs, run, cfg, dirs, state, used, disk, last, calls, steady, changes>>

\* Something else rewrites the state file.
Rewrite(c) ==
    /\ changes < MaxChanges
    /\ disk' = [disk EXCEPT !.state = FileOf(c)]
    /\ changes' = changes + 1
    /\ last' = [op |-> "rewrite"]
    /\ UNCHANGED <<fs, procs, run, cfg, dirs, state, used, now, calls, steady>>

\* The state file loses its read permission.
Protect ==
    /\ changes < MaxChanges
    /\ disk.state.exists /\ disk.state.readable
    /\ disk' = [disk EXCEPT !.state.readable = FALSE]
    /\ changes' = changes + 1
    /\ last' = [op |-> "protect"]
    /\ UNCHANGED <<fs, procs, run, cfg, dirs, state, used, now, calls, steady>>

NextLoad ==
    \/ Load
    \/ Save
    \/ Update("a.jpg")
    \/ Tick
    \/ \E c \in Rewrites : Rewrite(c)
    \/ Protect

SpecLoad == InitLoad /\ [][NextLoad]_vars

(***************************************************************************)
(* SpecSave: one process saving its state while system calls fail.  The    *)
(* directory may hold a temp file that a killed run has left behind.       *)
(***************************************************************************)
StaleTemp == FileOf(SubSeq(DumpState(FullDoc), 1, 5))

InitSave ==
    /\ disk \in {[EmptyDisk EXCEPT !.state = f, !.temp = t] :
                    f \in {NoFile, FileOf(<<Junk>>), FileOf(DumpState(_initialize))},
                    t \in {NoFile, StaleTemp}}
    /\ state \in AcceptedDocs
    /\ last = NoOp
    /\ now = 0
    /\ changes = 0
    /\ dirs = [dk \in DirKeys |-> NoDir]
    /\ used = <<>>
    /\ calls = [dk \in DirKeys |-> 0]
    /\ steady = [dk \in DirKeys |-> TRUE]
    /\ fs = NoRace /\ procs = NoRace /\ run = NoRun /\ cfg = NoConfig

\* save(state_file, state) with the calls in faults failing.
SaveFailing(faults) ==
    /\ LET sv == save_failing(disk, state, faults) IN
       /\ disk' = sv.disk
       /\ last' = [op |-> "save", ok |-> sv.ok, arg |-> state, faults |-> faults,
                   before |-> disk]
    /\ UNCHANGED <<fs, procs, run, cfg, dirs, state, used, now, calls, steady, changes>>

\* state = load(state_file) at the start of the next run.
LoadAgain ==
    /\ last.op = "save"
    /\ LET l == load(disk, now) IN
       /\ l.raised = "none"
       /\ state' = l.state
       /\ disk' = l.disk
    /\ last' = [op |-> "load"]
    /\ UNCHANGED <<fs, procs, run, cfg, dirs, used, now, calls, steady, changes>>

NextSave ==
    \/ \E faults \in SUBSET SaveCalls : SaveFailing(faults)
    \/ LoadAgain

SpecSave == InitSave /\ [][NextSave]_vars

(***************************************************************************)
(* SpecFS: processes racing on one state path.  Two writers run save, a    *)
(* reader runs load; every step is one system call.  A path names an       *)
(* inode, an open file keeps its inode whatever the path names later, and  *)
(* flock locks the inode.                                                  *)
(***************************************************************************)
Writers == {1, 2}
Reader == 3
MaxSaves == 1
MaxLoads == 1

Inodes == 1..(3 + Cardinality(Writers))

\* What a reader finds where nothing was written: the gap left by a write
\* past the end of a truncated file.
Hole == Tok("NUL")

NoInode == [data |-> <<>>, lock |-> 0]

\* The documents the writers save: each run saves its own selection.
DocFor(p, k) ==
    DumpState(update(IF p = 1 THEN _initialize ELSE FullDoc,
                     <<PathOf("/w/primary", IF p = 1 THEN "a.jpg" ELSE "c.png")>>, <<"DP-1">>,
                     IF k = 1 THEN StampA ELSE StampB))

InitialText == DumpState(_initialize)

\* json.dump and flush reach the file in two writes.
Chunk(doc, c) ==
    IF c = 1 THEN SubSeq(doc, 1, Len(doc) \div 2)
    ELSE SubSeq(doc, (Len(doc) \div 2) + 1, Len(doc))

\* write(fd, chunk) at the offset of the open file.
WriteAt(data, off, chunk) ==
    [i \in 1..(IF Len(data) > off + Len(chunk) THEN Len(data) ELSE off + Len(chunk)) |->
        IF i > off /\ i <= off + Len(chunk) THEN chunk[i - off]
        ELSE IF i <= Len(data) THEN data[i]
        ELSE Hole]

Linked(f) == {f.links.temp, f.links.real, f.links.copy} \ {0}
Opened(ps) == {ps[p].fd : p \in Writers} \ {0}

\* An inode no path names and no process holds open is gone.
Collect(f, ps) ==
    [f EXCEPT !.inodes = [i \in Inodes |->
        IF i \in Linked(f) \cup Opened(ps) THEN f.inodes[i] ELSE NoInode]]

FreeInode(f, ps) ==
    CHOOSE i \in Inodes : i \notin Linked(f) \cup Opened(ps)
                          /\ \A j \in Inodes : j < i => j \in Linked(f) \cup Opened(ps)

\* The state file as a reader of the path finds it.
Absent == <<Tok("ENOENT")>>
RealText(f) == IF f.links.real = 0 THEN Absent ELSE f.inodes[f.links.real].data

IdleWriter == [pc |-> "idle", fd |-> 0, off |-> 0, n |-> 0, ret |-> "none", why |-> "none",
               touched |-> FALSE]
IdleReader == [pc |-> "idle", n |-> 0, ret |-> "none", seen |-> Absent]

InitFS ==
    /\ fs \in {[links |-> [temp |-> 0, real |-> 0, copy |-> 0],
                inodes |-> [i \in Inodes |-> NoInode]],
               [links |-> [temp |-> 0, real |-> 1, copy |-> 0],
                inodes |-> [i \in Inodes |-> IF i = 1 THEN [data |-> InitialText, lock |-> 0]
                                             ELSE NoInode]]}
    /\ procs = [p \in Writers \cup {Reader} |-> IF p = Reader THEN IdleReader ELSE IdleWriter]
    /\ run = NoRun /\ cfg = NoConfig
    /\ dirs = [dk \in DirKeys |-> NoDir]
    /\ state = NoState
    /\ used = <<>>
    /\ disk = EmptyDisk
    /\ now = 0
    /\ last = NoOp
    /\ calls = [dk \in DirKeys |-> 0]
    /\ steady = [dk \in DirKeys |-> TRUE]
    /\ changes = 0

\* One step of writer p: the files and the process after it; the process
\* remembers whether a step of this call changed what the state path holds.
WriterStep(p, f, w) ==
    /\ fs' = Collect(f, [procs EXCEPT ![p] = w])
    /\ procs' = [procs EXCEPT ![p] = [w EXCEPT !.touched = @ \/ RealText(f) # RealText(fs)]]
    /\ UNCHANGED oneVars

\* save() is entered; state_file.parent.mkdir finds the directory.
Begin(p) ==
    /\ procs[p].pc \in {"idle", "done"}
    /\ procs[p].n < MaxSaves
    /\ WriterStep(p, fs, [IdleWriter EXCEPT !.pc = "open", !.n = procs[p].n + 1])

\* temp_file.open("w"): creates the temp file or truncates the one there.
Open(p) ==
    /\ procs[p].pc = "open"
    /\ LET i == IF fs.links.temp = 0 THEN FreeInode(fs, procs) ELSE fs.links.temp IN
       WriterStep(p, [fs EXCEPT !.links.temp = i, !.inodes[i].data = <<>>],
                  [procs[p] EXCEPT !.pc = "opened", !.fd = i, !.off = 0])

\* The mutant does not see the lock of the other process.
LockedOutNever(inode, p) == FALSE

\* The lock another open file holds on the inode.
LockedOut(inode, p) == inode.lock \notin {0, p}

\* fcntl.flock(LOCK_EX | LOCK_NB): BlockingIOError returns False, and
\* leaving the with block closes the file.
TryLock(p) ==
    /\ procs[p].pc = "opened"
    /\ IF LockedOut(fs.inodes[procs[p].fd], p)
       THEN WriterStep(p, fs, [procs[p] EXCEPT !.pc = "done", !.fd = 0, !.ret = "False",
                                               !.why = "locked"])
       ELSE WriterStep(p, [fs EXCEPT !.inodes[procs[p].fd].lock = p],
                       [procs[p] EXCEPT !.pc = "locked"])

\* json.dump(state, f) ... f.flush(): the two writes.
Write(p) ==
    /\ procs[p].pc \in {"locked", "writing"}
    /\ LET c == IF procs[p].pc = "locked" THEN 1 ELSE 2
           chunk == Chunk(DocFor(p, procs[p].n), c) IN
       WriterStep(p, [fs EXCEPT !.inodes[procs[p].fd].data = WriteAt(@, procs[p].off, chunk)],
                  [procs[p] EXCEPT !.pc = IF c = 1 THEN "writing" ELSE "flushed",
                                   !.off = @ + Len(chunk)])

\* fcntl.flock(LOCK_UN) and the close at the end of the with block.
Unlock(p) ==
    /\ procs[p].pc = "flushed"
    /\ WriterStep(p, [fs EXCEPT !.inodes[procs[p].fd].lock = 0],
                  [procs[p] EXCEPT !.pc = "closed", !.fd = 0])

\* temp_file.rename(state_file): replaces the state file in one step, or
\* raises FileNotFoundError when the temp path names nothing.
Rename(p) ==
    /\ procs[p].pc = "closed"
    /\ IF fs.links.temp = 0
       THEN WriterStep(p, fs, [procs[p] EXCEPT !.pc = "failed"])
       ELSE WriterStep(p, [fs EXCEPT !.links.real = fs.links.temp, !.links.temp = 0],
                       [procs[p] EXCEPT !.pc = "done", !.ret = "True"])

\* except OSError: if temp_file.exists(): temp_file.unlink(); return False
Cleanup(p) ==
    /\ procs[p].pc = "failed"
    /\ WriterStep(p, [fs EXCEPT !.links.temp = 0],
                  [procs[p] EXCEPT !.pc = "done", !.ret = "False", !.why = "rename"])

ReaderStep(f, r) ==
    /\ fs' = Collect(f, procs)
    /\ procs' = [procs EXCEPT ![Reader] = r]
    /\ UNCHANGED oneVars

\* load(): state_file.exists()
Exists ==
    /\ procs[Reader].pc \in {"idle", "done"}
    /\ procs[Reader].n < MaxLoads
    /\ ReaderStep(fs, IF fs.links.real = 0
                      THEN [IdleReader EXCEPT !.pc = "done", !.n = procs[Reader].n + 1,
                                             !.ret = "fresh"]
                      ELSE [IdleReader EXCEPT !.pc = "read", !.n = procs[Reader].n + 1])

\* state_file.read_text(), json.loads and _validate.
Read ==
    /\ procs[Reader].pc = "read"
    /\ LET text == RealText(fs)
           r == Loads(text)
           v == IF r.ok THEN _validate(r.val) ELSE "invalid" IN
       ReaderStep(fs,
           IF fs.links.real = 0
           THEN [procs[Reader] EXCEPT !.pc = "done", !.ret = "FileNotFoundError"]
           ELSE IF v = "valid"
           THEN [procs[Reader] EXCEPT !.pc = "done", !.ret = "loaded", !.seen = text]
           ELSE IF v = "TypeError"
           THEN [procs[Reader] EXCEPT !.pc = "done", !.ret = "TypeError", !.seen = text]
           ELSE [procs[Reader] EXCEPT !.pc = "backup", !.seen = text])

\* _backup_corrupted: state_file.rename(backup_path), OSError logged.
Quarantine ==
    /\ procs[Reader].pc = "backup"
    /\ ReaderStep(IF fs.links.real = 0 THEN fs
                  ELSE [fs EXCEPT !.links.copy = fs.links.real, !.links.real = 0],
                  [procs[Reader] EXCEPT !.pc = "done", !.ret = "fresh"])

NextFS ==
    \/ \E p \in Writers :
           \/ Begin(p)
           \/ Open(p)
           \/ TryLock(p)
           \/ Write(p)
           \/ Unlock(p)
           \/ Rename(p)
           \/ Cleanup(p)
    \/ Exists
    \/ Read
    \/ Quarantine

SpecFS == InitFS /\ [][NextFS]_vars

(***************************************************************************)
(* src/src/state_manager.py, cleanup_old_entries.  Time is counted in      *)
(* minutes from 2026-01-01T00:00 local time.                               *)
(***************************************************************************)
\* The texts datetime.fromisoformat accepts, among those of the models:
\* the local time each one names and whether it carries a UTC offset.
Timestamps ==
    << [text |-> StampA, aware |-> FALSE, minutes |-> 8 * 60],
       [text |-> "2026-01-30T20:29:00", aware |-> FALSE, minutes |-> (29 * 24 * 60) + (20 * 60) + 29],
       [text |-> "2026-01-30T20:30:00", aware |-> FALSE, minutes |-> (29 * 24 * 60) + (20 * 60) + 30],
       [text |-> StampB, aware |-> FALSE, minutes |-> (59 * 24 * 60) + (20 * 60) + 30],
       [text |-> "2026-01-01T08:00:00+00:00", aware |-> TRUE, minutes |-> 8 * 60] >>

\* datetime.datetime.fromisoformat(v): TypeError for what is no string,
\* ValueError for a string that is no ISO timestamp.
fromisoformat(v) ==
    IF v.t # "str" THEN [raised |-> "TypeError"]
    ELSE IF \E i \in 1..Len(Timestamps) : Timestamps[i].text = v.s
    THEN LET e == Timestamps[CHOOSE i \in 1..Len(Timestamps) : Timestamps[i].text = v.s]
         IN  [raised |-> "none", aware |-> e.aware, minutes |-> e.minutes]
    ELSE [raised |-> "ValueError"]

\* The truth value of a Python value.
Truthy(v) ==
    CASE v.t = "none" -> FALSE
      [] v.t = "bool" -> v.b
      [] v.t = "int" -> v.n # 0
      [] v.t = "str" -> v.s # ""
      [] v.t = "list" -> v.items # <<>>
      [] v.t = "dict" -> v.keys # <<>>

\* cleanup_old_entries(state, max_age_days) called at minute at_minute.
\* datetime.now() is naive: comparing it with a timestamp that carries an
\* offset raises TypeError, which is caught like a failed parse.
cleanup_old_entries(st, max_age_days, at_minute) ==
    LET last_run == IF DictHas(st, "last_run") THEN DictGet(st, "last_run") ELSE PyNone IN
    IF ~Truthy(last_run) THEN st
    ELSE LET parsed == fromisoformat(last_run)
             cutoff == at_minute - (max_age_days * 24 * 60) IN
         IF parsed.raised # "none" THEN st
         ELSE IF parsed.aware THEN st
         ELSE IF parsed.minutes < cutoff THEN DictSet(st, "round_robin", EmptyDict)
         ELSE st

(***************************************************************************)
(* SpecCleanup: cleanup_old_entries on states with every kind of last_run. *)
(***************************************************************************)
LastRuns ==
    {PyNone, PyStr(""), PyInt(5), PyBool(TRUE), PyStr("yesterday")}
    \cup {PyStr(Timestamps[i].text) : i \in 1..Len(Timestamps)}

CleanupDocs ==
    {Doc(PyStr("1.0"), last_run, OneMonitor("a.jpg"), rr) :
        last_run \in LastRuns,
        rr \in {EmptyDict, OneDir(EntryOf(StrList(<<"B.JPG", "a.jpg">>), PyInt(1)))}}

\* max_age_days, and the minutes the function is called at: those of
\* StampA and of StampB.
MaxAges == {0, 30, 60}
CallTimes == {fromisoformat(PyStr(StampA)).minutes, fromisoformat(PyStr(StampB)).minutes}

InitCleanup ==
    /\ state \in CleanupDocs
    /\ last = NoOp
    /\ dirs = [dk \in DirKeys |-> NoDir]
    /\ used = <<>>
    /\ disk = EmptyDisk
    /\ now = 0
    /\ calls = [dk \in DirKeys |-> 0]
    /\ steady = [dk \in DirKeys |-> TRUE]
    /\ changes = 0
    /\ fs = NoRace /\ procs = NoRace /\ run = NoRun /\ cfg = NoConfig

\* cleanup_old_entries(state, max_age_days)
CleanupOldEntries(max_age_days, at_minute) ==
    /\ state' = cleanup_old_entries(state, max_age_days, at_minute)
    /\ last' = [op |-> "cleanup", before |-> state, max_age_days |-> max_age_days,
                at |-> at_minute]
    /\ UNCHANGED <<fs, procs, run, cfg, dirs, used, disk, now, calls, steady, changes>>

NextCleanup == \E max_age_days \in MaxAges, at_minute \in CallTimes :
                   CleanupOldEntries(max_age_days, at_minute)

SpecCleanup == InitCleanup /\ [][NextCleanup]_vars

(***************************************************************************)
(* SpecRun: runs of the program (cli.run), step by step: load, monitors,   *)
(* selection, the check of the selection, update, painter, save.           *)
(***************************************************************************)
MaxMonitors == 3
MaxRuns == 2

MonitorNames == <<"DP-1", "HDMI-1", "eDP-1", "DP-2", "DP-3">>

\* What get_wallpaper_dirs gives a run: a ValueError, or the mapping with
\* `primary` and perhaps `left` (a directory of its own, or the same one).
Unresolved == [ok |-> FALSE, primary |-> "", left |-> ""]
Resolved(primary, left) == [ok |-> TRUE, primary |-> primary, left |-> left]
WallpaperDirs ==
    {Unresolved, Resolved("/w/primary", ""), Resolved("/w/primary", "/w/left"),
     Resolved("/w/primary", "/w/primary")}

\* XDG_SESSION_TYPE, lower-cased ("unknown" when unset).
Servers == {"wayland", "x11", "unknown"}

\* The directories of a run.
PrimaryContents == {NoDir, DirOf({"B.JPG"}), DirOf({"B.JPG", "a.jpg"}), DirOf(FileNames)}
LeftContents == {DirOf({"a.jpg"}), DirOf(FileNames)}

\* The configuration and the environment do not change between the runs of
\* a behaviour.  The state file the first run finds: none, junk, or the
\* state a former run saved with its position edited by hand.
\* The monitors the former run recorded; VGA-1 has been unplugged since.
SeedMonitors ==
    PyDict(<<"DP-1", "VGA-1">>,
           <<PyDict(<<"filename", "timestamp">>, <<PyStr("a.jpg"), PyStr(StampA)>>),
             PyDict(<<"filename", "timestamp">>, <<PyStr("B.JPG"), PyStr(StampA)>>)>>)

SeedDoc ==
    Doc(PyStr("1.0"), PyStr(StampA), SeedMonitors,
        OneDir(EntryOf(StrList(<<"B.JPG", "a.jpg">>), PyInt(-9))))
RunFiles == {NoFile, FileOf(<<Junk>>), FileOf(DumpState(SeedDoc))}

\* drew and results keep, per monitor index, the directory a draw was made
\* on and what it returned; steps keeps the calls of the run in their order.
IdleRun == [pc |-> "idle", n |-> 0, tracking |-> FALSE, server |-> "unknown", M |-> 0,
            wd |-> Unresolved, idx |-> 0, paths |-> <<>>, selected |-> FALSE,
            updated |-> FALSE, painted |-> 0, saved |-> FALSE, found |-> NoFile,
            drew |-> <<>>, results |-> <<>>, steps |-> <<>>, auto_cleanup |-> FALSE]

InitRun ==
    /\ dirs \in {[dk \in DirKeys |-> IF dk = "/w/primary" THEN a ELSE b] :
                    a \in PrimaryContents, b \in LeftContents}
    /\ disk \in {[EmptyDisk EXCEPT !.state = f] : f \in RunFiles}
    /\ state = NoState
    /\ used = <<>>
    /\ run \in {[IdleRun EXCEPT !.tracking = tracking, !.server = server, !.M = M, !.wd = wd] :
                    tracking \in BOOLEAN, server \in Servers, M \in 0..MaxMonitors,
                    wd \in WallpaperDirs}
    /\ now = 0
    /\ last = NoOp
    /\ calls = [dk \in DirKeys |-> 0]
    /\ steady = [dk \in DirKeys |-> TRUE]
    /\ changes = 0
    /\ fs = NoRace /\ procs = NoRace /\ cfg = NoConfig

runPinned == <<now, last, calls, steady, changes, fs, procs, cfg>>

\* The program starts, with the configuration and the environment of the
\* behaviour.
RunStart ==
    /\ run.pc \in {"idle", "done"}
    /\ run.n < MaxRuns
    /\ run' = [IdleRun EXCEPT !.pc = "load", !.n = run.n + 1, !.tracking = run.tracking,
                              !.server = run.server, !.M = run.M, !.wd = run.wd]
    /\ state' = NoState
    /\ used' = <<>>
    /\ UNCHANGED <<dirs, disk>>
    /\ UNCHANGED runPinned

\* The mutant tracks the state whatever the configuration says.
StateTrackingAlways(r) == TRUE

\* cfg.state_tracking.enabled
StateTrackingEnabled(r) == r.tracking

\* if cfg.state_tracking.enabled: state_data = state.load(state_file);
\* an exception leaving load ends the program.
RunLoad ==
    /\ run.pc = "load"
    /\ IF StateTrackingEnabled(run)
       THEN LET l == load(disk, now) IN
            /\ disk' = l.disk
            /\ state' = IF l.raised = "none" THEN l.state ELSE NoState
            /\ run' = [run EXCEPT !.pc = IF l.raised = "none" THEN "monitors" ELSE "done",
                                  !.found = l.disk.state,
                                  !.steps = Append(@, "Load")]
       ELSE /\ run' = [run EXCEPT !.pc = "monitors", !.found = disk.state]
            /\ UNCHANGED <<disk, state>>
    /\ UNCHANGED <<dirs, used>>
    /\ UNCHANGED runPinned

\* monitors = get_sway_monitors() or get_x11_monitors(); none: return.
RunMonitors ==
    /\ run.pc = "monitors"
    /\ run' = [run EXCEPT !.pc = IF run.M = 0 THEN "done" ELSE "resolve"]
    /\ UNCHANGED <<dirs, state, used, disk>>
    /\ UNCHANGED runPinned

\* select_wallpapers: get_wallpaper_dirs, a ValueError gives [].
RunResolve ==
    /\ run.pc = "resolve"
    /\ run' = IF run.wd.ok THEN [run EXCEPT !.pc = "draw", !.steps = Append(@, "Resolve")]
              ELSE [run EXCEPT !.pc = "check", !.selected = TRUE,
                               !.steps = @ \o <<"Resolve", "Select">>]
    /\ used' = <<>>
    /\ UNCHANGED <<dirs, state, disk>>
    /\ UNCHANGED runPinned

\* The mutant draws for every monitor from primary.
DirectoryForPrimary(wd, idx) == wd.primary

\* The directory of monitor idx: left for the odd ones when there is a left.
DirectoryFor(wd, idx) == IF wd.left # "" /\ idx % 2 = 1 THEN wd.left ELSE wd.primary

\* One turn of the loop over the monitors.
RunDraw(r) ==
    /\ run.pc = "draw"
    /\ LET dk == DirectoryFor(run.wd, run.idx)
           d == next_wallpaper(dk, dirs[dk], Extensions, state, used, r) IN
       /\ state' = d.state
       /\ used' = d.used
       /\ run' = [run EXCEPT !.paths = IF d.path.ok THEN Append(@, d.path) ELSE @,
                             !.drew = Append(@, dk),
                             !.results = Append(@, d.path),
                             !.idx = @ + 1,
                             !.pc = IF run.idx + 1 = run.M THEN "check" ELSE "draw",
                             !.selected = run.idx + 1 = run.M,
                             !.steps = IF run.idx + 1 = run.M THEN Append(@, "Select") ELSE @]
    /\ UNCHANGED <<dirs, disk>>
    /\ UNCHANGED runPinned

\* The mutant only asks for some selection.
SelectionNotEmpty(paths, monitor_count) == Len(paths) > 0

\* if len(wallpaper_paths) != monitor_count: return
SelectionComplete(paths, monitor_count) == Len(paths) = monitor_count

RunCheck ==
    /\ run.pc = "check"
    /\ run' = [run EXCEPT !.pc = IF SelectionComplete(run.paths, run.M) THEN "update" ELSE "done"]
    /\ UNCHANGED <<dirs, state, used, disk>>
    /\ UNCHANGED runPinned

\* if state_data is not None: state.update(state_data, wallpaper_paths, monitors)
RunUpdate ==
    /\ run.pc = "update"
    /\ IF state # NoState
       THEN /\ state' = update(state, run.paths, SubSeq(MonitorNames, 1, run.M), StampB)
            /\ run' = [run EXCEPT !.pc = "paint", !.updated = TRUE,
                                  !.steps = Append(@, "UpdateState")]
       ELSE /\ run' = [run EXCEPT !.pc = "paint"]
            /\ UNCHANGED state
    /\ UNCHANGED <<dirs, used, disk>>
    /\ UNCHANGED runPinned

\* set_sway_wallpaper / set_x11_wallpaper, or return on another server.
RunPaint ==
    /\ run.pc = "paint"
    /\ run' = IF run.server \in {"wayland", "x11"}
              THEN [run EXCEPT !.pc = "save", !.painted = Len(run.paths),
                               !.steps = Append(@, "Apply")]
              ELSE [run EXCEPT !.pc = "done"]
    /\ UNCHANGED <<dirs, state, used, disk>>
    /\ UNCHANGED runPinned

\* The mutant's run ends without saving.
RunSaveNot ==
    /\ run.pc = "save"
    /\ run' = [run EXCEPT !.pc = "done"]
    /\ UNCHANGED <<dirs, state, used, disk>>
    /\ UNCHANGED runPinned

\* if state_data is not None: state.save(state_file, state_data)
RunSave ==
    /\ run.pc = "save"
    /\ IF state # NoState
       THEN LET sv == save(disk, state) IN
            /\ disk' = sv.disk
            /\ run' = [run EXCEPT !.pc = "done", !.saved = TRUE,
                                  !.steps = Append(@, "Persist")]
       ELSE /\ run' = [run EXCEPT !.pc = "done"]
            /\ UNCHANGED disk
    /\ UNCHANGED <<dirs, state, used>>
    /\ UNCHANGED runPinned

NextRun ==
    \/ RunStart
    \/ RunLoad
    \/ RunMonitors
    \/ RunResolve
    \/ \E r \in 1..MaxFiles : RunDraw(r)
    \/ RunCheck
    \/ RunUpdate
    \/ RunPaint
    \/ RunSave

SpecRun == InitRun /\ [][NextRun]_vars

(***************************************************************************)
(* SpecMain: runs of src/src/wallpaper.py, main: the steps of SpecRun with *)
(* the auto-cleanup of the state between update_state and the painter.     *)
(* The state file of the first run was saved 59 days before it, after a    *)
(* run on a directory that is configured no more.                          *)
(***************************************************************************)
StaleDoc ==
    Doc(PyStr("1.0"), PyStr(StampA), SeedMonitors,
        PyDict(<<"/w/old", "/w/primary">>,
               <<EntryOf(StrList(<<"a.jpg", "c.png">>), PyInt(1)),
                 EntryOf(StrList(<<"B.JPG", "a.jpg">>), PyInt(1))>>))

MainFiles == {NoFile, FileOf(DumpState(StaleDoc))}
MainDirs == {Resolved("/w/primary", ""), Resolved("/w/primary", "/w/left")}

InitMain ==
    /\ dirs \in {[dk \in DirKeys |-> IF dk = "/w/primary" THEN a ELSE DirOf(FileNames)] :
                    a \in PrimaryContents \ {NoDir}}
    /\ disk \in {[EmptyDisk EXCEPT !.state = f] : f \in MainFiles}
    /\ state = NoState
    /\ used = <<>>
    /\ run \in {[IdleRun EXCEPT !.tracking = tracking, !.auto_cleanup = auto_cleanup,
                                !.server = server, !.M = M, !.wd = wd] :
                    tracking \in BOOLEAN, auto_cleanup \in BOOLEAN,
                    server \in {"x11", "unknown"}, M \in 0..MaxMonitors, wd \in MainDirs}
    /\ now = 0
    /\ last = NoOp
    /\ calls = [dk \in DirKeys |-> 0]
    /\ steady = [dk \in DirKeys |-> TRUE]
    /\ changes = 0
    /\ fs = NoRace /\ procs = NoRace /\ cfg = NoConfig

\* main starts, with the configuration and the environment of the behaviour.
MainStart ==
    /\ run.pc \in {"idle", "done"}
    /\ run.n < MaxRuns
    /\ run' = [IdleRun EXCEPT !.pc = "load", !.n = run.n + 1, !.tracking = run.tracking,
                              !.auto_cleanup = run.auto_cleanup,
                              !.server = run.server, !.M = run.M, !.wd = run.wd]
    /\ state' = NoState
    /\ used' = <<>>
    /\ UNCHANGED <<dirs, disk>>
    /\ UNCHANGED runPinned

\* update_state(state, wallpaper_paths, monitors), then
\* if config.state_tracking.auto_cleanup: cleanup_old_entries(state, max_age_days=30);
\* both read the clock of the run.
update_then_cleanup(st, paths, monitors, timestamp) ==
    cleanup_old_entries(update(st, paths, monitors, timestamp), 30,
                        fromisoformat(PyStr(timestamp)).minutes)

\* if state is not None: update_state(...) and the auto-cleanup
MainUpdate ==
    /\ run.pc = "update"
    /\ IF state # NoState
       THEN /\ state' = IF run.auto_cleanup
                         THEN update_then_cleanup(state, run.paths,
                                                  SubSeq(MonitorNames, 1, run.M), StampB)
                         ELSE update(state, run.paths, SubSeq(MonitorNames, 1, run.M), StampB)
            /\ run' = [run EXCEPT !.pc = "paint", !.updated = TRUE,
                                  !.steps = Append(@, "UpdateState")]
       ELSE /\ run' = [run EXCEPT !.pc = "paint"]
            /\ UNCHANGED state
    /\ UNCHANGED <<dirs, used, disk>>
    /\ UNCHANGED runPinned

NextMain ==
    \/ MainStart
    \/ RunLoad
    \/ RunMonitors
    \/ RunResolve
    \/ \E r \in 1..MaxFiles : RunDraw(r)
    \/ RunCheck
    \/ MainUpdate
    \/ RunPaint
    \/ RunSave

SpecMain == InitMain /\ [][NextMain]_vars

(***************************************************************************)
(* SpecLive: the program is run again and again with state tracking, by a  *)
(* timer or a key binding, on directories that do not change.              *)
(***************************************************************************)
LivePrimary == {DirOf({"B.JPG"}), DirOf({"B.JPG", "a.jpg"}), DirOf(FileNames)}

InitLive ==
    /\ dirs \in {[dk \in DirKeys |-> IF dk = "/w/primary" THEN a ELSE b] :
                    a \in LivePrimary, b \in LeftContents}
    /\ disk = EmptyDisk
    /\ state = NoState
    /\ used = <<>>
    /\ run \in {[IdleRun EXCEPT !.tracking = TRUE, !.server = "x11", !.M = M, !.wd = wd] :
                    M \in 1..MaxMonitors, wd \in WallpaperDirs \ {Unresolved}}
    /\ now = 0
    /\ last = NoOp
    /\ calls = [dk \in DirKeys |-> 0]
    /\ steady = [dk \in DirKeys |-> TRUE]
    /\ changes = 0
    /\ fs = NoRace /\ procs = NoRace /\ cfg = NoConfig

\* The program starts once more.
RunAgain ==
    /\ run.pc \in {"idle", "done"}
    /\ run' = [IdleRun EXCEPT !.pc = "load", !.n = 1, !.tracking = run.tracking,
                              !.server = run.server, !.M = run.M, !.wd = run.wd]
    /\ state' = NoState
    /\ used' = <<>>
    /\ UNCHANGED <<dirs, disk>>
    /\ UNCHANGED runPinned

NextLive ==
    \/ RunAgain
    \/ RunLoad
    \/ RunMonitors
    \/ RunResolve
    \/ \E r \in 1..MaxFiles : RunDraw(r)
    \/ RunCheck
    \/ RunUpdate
    \/ RunPaint
    \/ RunSave

\* The steps of a run that follow the load and the draws, and the next
\* start of the program.
RunsOn ==
    \/ RunAgain
    \/ RunMonitors
    \/ RunResolve
    \/ RunCheck
    \/ RunUpdate
    \/ RunPaint
    \/ RunSave

\* The timer starts the program again and again and every step of a run is
\* taken in the end; load and the draws wait for nothing (a non-blocking
\* read of a file and of a directory listing) and so return.
SpecLive ==
    /\ InitLive /\ [][NextLive]_vars
    /\ WF_vars(RunsOn)
    /\ []<>(run.pc \notin {"load", "draw"})

(***************************************************************************)
(* SpecDirs: src/src/config.py, Config.get_wallpaper_dirs over every       *)
(* DirectoryConfig.  A field that is set holds a path of its own (named    *)
(* after the field), a field that is not set holds None.                   *)
(***************************************************************************)
TimeFields ==
    {"workday_light_primary", "workday_light_left", "workday_dark_primary", "workday_dark_left",
     "holiday_light_primary", "holiday_light_left", "holiday_dark_primary", "holiday_dark_left"}
SimpleFields == {"workday_primary", "workday_left", "holiday_primary", "holiday_left"}
BasicFields == {"primary", "left", "sunday"}
Fields == TimeFields \cup SimpleFields \cup BasicFields

None == ""
DirectoryConfig(set) == [f \in Fields |-> IF f \in set THEN f ELSE None]

\* _build_dir_dict: {"primary": primary} and "left" when left is set.
_build_dir_dict(primary, left) == Resolved(primary, left)

_try_time_based(d, is_holiday, is_day) ==
    IF is_holiday
    THEN IF is_day /\ d["holiday_light_primary"] # None
         THEN _build_dir_dict(d["holiday_light_primary"], d["holiday_light_left"])
         ELSE IF ~is_day /\ d["holiday_dark_primary"] # None
         THEN _build_dir_dict(d["holiday_dark_primary"], d["holiday_dark_left"])
         ELSE Unresolved
    ELSE IF is_day /\ d["workday_light_primary"] # None
         THEN _build_dir_dict(d["workday_light_primary"], d["workday_light_left"])
         ELSE IF ~is_day /\ d["workday_dark_primary"] # None
         THEN _build_dir_dict(d["workday_dark_primary"], d["workday_dark_left"])
         ELSE Unresolved

_try_work_holiday(d, is_holiday) ==
    IF is_holiday /\ d["holiday_primary"] # None
    THEN _build_dir_dict(d["holiday_primary"], d["holiday_left"])
    ELSE IF ~is_holiday /\ d["workday_primary"] # None
    THEN _build_dir_dict(d["workday_primary"], d["workday_left"])
    ELSE Unresolved

\* The mutant's basic tier: on a holiday only sunday, otherwise only primary.
_try_basic_by_day(d, is_holiday) ==
    IF is_holiday
    THEN (IF d["sunday"] # None THEN _build_dir_dict(d["sunday"], None) ELSE Unresolved)
    ELSE (IF d["primary"] # None THEN _build_dir_dict(d["primary"], d["left"]) ELSE Unresolved)

\* The mutant's basic tier prefers sunday on every day.
_try_basic_sunday_first(d, is_holiday) ==
    IF d["sunday"] # None
    THEN _build_dir_dict(d["sunday"], None)
    ELSE IF d["primary"] # None
    THEN _build_dir_dict(d["primary"], d["left"])
    ELSE Unresolved

_try_basic(d, is_holiday) ==
    IF is_holiday /\ d["sunday"] # None
    THEN _build_dir_dict(d["sunday"], None)
    ELSE IF d["primary"] # None
    THEN _build_dir_dict(d["primary"], d["left"])
    ELSE Unresolved

\* get_wallpaper_dirs: the first tier with a result; Unresolved stands for
\* ValueError("No valid wallpaper directories configured").
get_wallpaper_dirs(d, is_holiday, is_day) ==
    LET t == _try_time_based(d, is_holiday, is_day)
        w == _try_work_holiday(d, is_holiday)
        b == _try_basic(d, is_holiday) IN
    IF t.ok THEN t ELSE IF w.ok THEN w ELSE b

\* _load_directories: a configuration file is accepted when one of these
\* is set.
Loadable(d) ==
    \/ \E f \in {"workday_light_primary", "workday_dark_primary", "holiday_light_primary",
                 "holiday_dark_primary"} : d[f] # None
    \/ d["workday_primary"] # None \/ d["holiday_primary"] # None
    \/ d["primary"] # None \/ d["sunday"] # None

\* _load_directories returns: a time-based section that is present has
\* its primary (a required option), and the check at its end passes.
Accepted(d) ==
    /\ \A sec \in {"workday_light", "workday_dark", "holiday_light", "holiday_dark"} :
           \A f \in TimeFields, g \in TimeFields :
               (f = sec \o "_left" /\ g = sec \o "_primary" /\ d[f] # None) => d[g] # None
    /\ Loadable(d)

InitDirs ==
    /\ cfg \in {DirectoryConfig(set) : set \in SUBSET Fields}
    /\ last = NoOp
    /\ dirs = [dk \in DirKeys |-> NoDir]
    /\ state = NoState
    /\ used = <<>>
    /\ disk = EmptyDisk
    /\ now = 0
    /\ calls = [dk \in DirKeys |-> 0]
    /\ steady = [dk \in DirKeys |-> TRUE]
    /\ changes = 0
    /\ fs = NoRace /\ procs = NoRace /\ run = NoRun

\* config.get_wallpaper_dirs(is_holiday, is_daytime)
GetWallpaperDirs(is_holiday, is_day) ==
    /\ last' = [op |-> "dirs", is_holiday |-> is_holiday, is_day |-> is_day,
                result |-> get_wallpaper_dirs(cfg, is_holiday, is_day)]
    /\ UNCHANGED <<dirs, state, used, disk, now, calls, steady, changes, fs, procs, run, cfg>>

NextDirs == \E is_holiday \in BOOLEAN, is_day \in BOOLEAN : GetWallpaperDirs(is_holiday, is_day)

SpecDirs == InitDirs /\ [][NextDirs]_vars

(***************************************************************************)
(* SpecDay: src/src/config.py, Config.is_daytime.  A datetime.time is its  *)
(* hour, minute and second; times compare field by field, as tuples.      *)
(***************************************************************************)
Time(hour, minute, second) == [hour |-> hour, minute |-> minute, second |-> second]

\* a < b and a <= b on datetime.time
TimeLess(a, b) ==
    \/ a.hour < b.hour
    \/ a.hour = b.hour /\ a.minute < b.minute
    \/ a.hour = b.hour /\ a.minute = b.minute /\ a.second < b.second
TimeLessEq(a, b) == a = b \/ TimeLess(a, b)

ScheduleConfig(day_start_time, night_start_time) ==
    [on |-> TRUE, day_start_time |-> day_start_time, night_start_time |-> night_start_time]

\* The mutant counts night_start itself as day.
is_daytime_closed(schedule, current_time) ==
    IF TimeLess(schedule.day_start_time, schedule.night_start_time)
    THEN /\ TimeLessEq(schedule.day_start_time, current_time)
         /\ TimeLessEq(current_time, schedule.night_start_time)
    ELSE \/ TimeLessEq(schedule.day_start_time, current_time)
         \/ TimeLessEq(current_time, schedule.night_start_time)

\* Config.is_daytime(current_time)
is_daytime(schedule, current_time) ==
    LET day_start == schedule.day_start_time
        night_start == schedule.night_start_time IN
    IF TimeLess(day_start, night_start)
    THEN TimeLessEq(day_start, current_time) /\ TimeLess(current_time, night_start)
    ELSE TimeLessEq(day_start, current_time) \/ TimeLess(current_time, night_start)

\* The hours and minutes of the boundaries (HH:MM in the configuration),
\* and the clock times asked about: the boundaries, the second before a
\* full minute and the times of the tests.
BoundaryHours == {0, 6, 8, 18, 22, 23}
BoundaryMinutes == {0, 30, 59}
Boundaries == {Time(h, m, 0) : h \in BoundaryHours, m \in BoundaryMinutes}
ClockTimes ==
    {Time(h, m, s) : h \in BoundaryHours \cup {5, 7, 12, 17, 21}, m \in BoundaryMinutes,
                     s \in {0, 59}}

InitDay ==
    /\ cfg \in {ScheduleConfig(d, n) : d \in Boundaries, n \in Boundaries}
    /\ last = NoOp
    /\ state = NoState
    /\ dirs = [dk \in DirKeys |-> NoDir]
    /\ used = <<>>
    /\ disk = EmptyDisk
    /\ now = 0
    /\ calls = [dk \in DirKeys |-> 0]
    /\ steady = [dk \in DirKeys |-> TRUE]
    /\ changes = 0
    /\ fs = NoRace /\ procs = NoRace /\ run = NoRun

\* config.is_daytime(current_time)
IsDaytime(current_time) ==
    /\ last' = [op |-> "is_daytime", current_time |-> current_time,
                result |-> is_daytime(cfg, current_time)]
    /\ UNCHANGED <<cfg, fs, procs, run, dirs, state, used, disk, now, calls, steady, changes>>

NextDay == \E current_time \in ClockTimes : IsDaytime(current_time)

SpecDay == InitDay /\ [][NextDay]_vars

(***************************************************************************)
(* What the claims speak of.                                               *)
(***************************************************************************)
\* The place of a name in ascending code-point order.
Rank(name) == CHOOSE i \in 1..Len(NameOrder) : NameOrder[i].name = name

\* The eligible images of a directory: regular files with an accepted
\* extension, compared without regard to case.
Eligible(dir) ==
    IF ~dir.isdir THEN {}
    ELSE {NameOrder[i].name : i \in {j \in 1..Len(NameOrder) :
             /\ NameOrder[j].name \in dir.names
             /\ NameOrder[j].file
             /\ Lower(NameOrder[j].suffix) \in Extensions}}

\* The k-th eligible image in ascending filename order, k in 1..N.
KthImage(dir, k) ==
    CHOOSE n \in Eligible(dir) :
        Cardinality({m \in Eligible(dir) : Rank(m) < Rank(n)}) = k - 1

CountOf(dir) == Cardinality(Eligible(dir))

\* The round_robin entry stored for directory dk.
Entry(dk) == DictGet(DictGet(state, "round_robin"), dk)
HasEntry(dk) == state.t = "dict" /\ DictHas(DictGet(state, "round_robin"), dk)

\* C1 (round-robin completeness): from a fresh state, with the directory
\* unchanged, the k-th stateful draw with an empty used-set returns the
\* image number ((k - 1) mod N) + 1 in ascending filename order, whether
\* the state stays in memory or is saved and loaded between the draws.
C1_RoundRobinCompleteness ==
    \A dk \in DirKeys :
        (last.op = "draw" /\ last.dk = dk /\ steady[dk] /\ CountOf(dirs[dk]) >= 1)
        => last.path = PathOf(dk, KthImage(dirs[dk], ((calls[dk] - 1) % CountOf(dirs[dk])) + 1))

\* Three images, the state saved and loaded on the way: the fourth draw
\* is the first image again.
C1_Witness ==
    /\ last.op = "draw" /\ last.dk = "/w/primary" /\ steady["/w/primary"]
    /\ CountOf(dirs["/w/primary"]) = 3 /\ calls["/w/primary"] = 4
    /\ disk.state.exists
    /\ last.path = PathOf("/w/primary", "B.JPG")

\* C7 (content-change reset): a stateful draw with an empty used-set that
\* finds a stored image list different from the current listing returns
\* the first image of the current listing, stores the current listing and
\* leaves the stored position at 1 mod N, whatever was stored before.
C7_ContentChangeReset ==
    \A dk \in DirKeys :
        (last.op = "draw" /\ last.dk = dk /\ last.stale /\ last.usedBefore = <<>>
            /\ CountOf(dirs[dk]) >= 1)
        => /\ last.path = PathOf(dk, KthImage(dirs[dk], 1))
           /\ HasEntry(dk)
           /\ DictGet(Entry(dk), "images")
                = PyList([k \in 1..CountOf(dirs[dk]) |-> PyStr(KthImage(dirs[dk], k))])
           /\ DictGet(Entry(dk), "position") = PyInt(1 % CountOf(dirs[dk]))

\* A stale entry whose stored position was out of range, on a directory of
\* two images or more.
C7_Witness ==
    /\ last.op = "draw" /\ last.stale /\ last.usedBefore = <<>>
    /\ CountOf(dirs[last.dk]) >= 2
    /\ last.pos > CountOf(dirs[last.dk])
    /\ last.path.ok

(***************************************************************************)
(* The state file: loading, saving, recovery.                              *)
(***************************************************************************)
\* The rule set of the specification for a loaded document.
EntryConforms(e) ==
    /\ e.t = "dict"
    /\ DictHas(e, "images") /\ DictHas(e, "position")
    /\ DictGet(e, "images").t = "list"
    /\ \A i \in 1..Len(DictGet(e, "images").items) : DictGet(e, "images").items[i].t = "str"
    /\ DictGet(e, "position").t = "int"

Conforms(v) ==
    /\ v.t = "dict"
    /\ DictHas(v, "version") /\ DictGet(v, "version").t = "str"
    /\ DictHas(v, "current_wallpapers") /\ DictGet(v, "current_wallpapers").t = "dict"
    /\ DictHas(v, "round_robin") /\ DictGet(v, "round_robin").t = "dict"
    /\ \A i \in 1..Len(DictGet(v, "round_robin").vals) :
           EntryConforms(DictGet(v, "round_robin").vals[i])

\* The file holds invalid JSON or a schema-invalid document.
Corrupted(file) ==
    /\ file.exists /\ file.readable
    /\ ~Loads(file.data).ok \/ ~Conforms(Loads(file.data).val)

CopiesOn(d) == {s \in 0..MaxClock : d.backups[s].exists}

\* C4: load never raises: whatever the state file holds, a load returns,
\* and what it returns is the validated document of the file or a freshly
\* initialised state.
C4_LoadNeverRaises ==
    last.op = "load" =>
        /\ last.raised = "none"
        /\ \/ state = _initialize
           \/ /\ last.found.exists /\ Loads(last.found.data).ok
              /\ state = Loads(last.found.data).val
              /\ _validate(state) = "valid"

\* C8: persistence round trip: a load that follows a successful save, with
\* nothing written in between, returns a state equal to the saved one in
\* every field.
C8_PersistenceRoundTrip ==
    (last.op = "load" /\ last.afterSave) =>
        /\ last.raised = "none"
        /\ state = last.saved
        /\ \A f \in {"version", "last_run", "current_wallpapers", "round_robin"} :
               DictHas(last.saved, f) =>
                   DictHas(state, f) /\ DictGet(state, f) = DictGet(last.saved, f)

C8_Witness ==
    /\ last.op = "load" /\ last.afterSave
    /\ DictHas(last.saved, "last_run")
    /\ DictGet(last.saved, "last_run") = PyStr(StampB)
    /\ DictGet(last.saved, "current_wallpapers") # EmptyDict
    /\ DictGet(last.saved, "round_robin") # EmptyDict
    /\ state = last.saved

\* C9: corruption recovery idempotence: a load of a file holding invalid
\* JSON or a schema-invalid document returns a fresh default state, the
\* original path is gone and exactly one new copy holds the bad content; a
\* load that finds no file returns a fresh default state and makes no copy.
C9_CorruptionRecovery ==
    /\ (last.op = "load" /\ Corrupted(last.found)) =>
           /\ last.raised = "none"
           /\ state = _initialize
           /\ ~disk.state.exists
           /\ \E s \in 0..MaxClock :
                  /\ CopiesOn(disk) = last.copies \cup {s}
                  /\ s \notin last.copies
                  /\ disk.backups[s].data = last.found.data
    /\ (last.op = "load" /\ ~last.found.exists) =>
           /\ last.raised = "none"
           /\ state = _initialize
           /\ CopiesOn(disk) = last.copies

(***************************************************************************)
(* The state file under racing processes.                                  *)
(***************************************************************************)
\* The documents passed to the saves entered so far, and the initial content.
Complete ==
    {InitialText} \cup UNION {{DocFor(p, k) : k \in 1..procs[p].n} : p \in Writers}

\* C2: never a partial file: whenever the state file exists it holds a
\* complete document exactly as passed to one save (or its initial
\* content), and a reader never finds anything else.
C2_NeverPartialFile ==
    /\ fs.links.real # 0 => RealText(fs) \in Complete
    /\ procs[Reader].seen # Absent => procs[Reader].seen \in Complete

\* C3: lock contention: a writer that asks for the lock while another
\* writer holds it is not made to wait; its very next step returns failure,
\* and no step of its save has changed what the state path holds.
C3_Contended(p) ==
    /\ procs[p].pc = "opened"
    /\ fs.inodes[procs[p].fd].lock \in Writers \ {p}

C3_LockContention ==
    /\ [](\A p \in Writers : C3_Contended(p) => ENABLED TryLock(p))
    /\ [][\A p \in Writers :
             (C3_Contended(p) /\ procs'[p] # procs[p]) =>
                 /\ procs'[p].pc = "done"
                 /\ procs'[p].ret = "False"
                 /\ ~procs'[p].touched
                 /\ RealText(fs') = RealText(fs)]_vars

C3_Witness ==
    \E p \in Writers :
        /\ procs[p].pc = "done" /\ procs[p].why = "locked" /\ procs[p].ret = "False"
        /\ fs.links.real # 0 /\ RealText(fs) = InitialText
        /\ \E q \in Writers \ {p} : procs[q].pc \in {"locked", "writing", "flushed"}

(***************************************************************************)
(* A run of the program.                                                   *)
(***************************************************************************)
\* The directories select_wallpapers draws from for M monitors.
DrawnFrom(wd, M) == {DirectoryFor(wd, idx) : idx \in 0..(M - 1)}

\* C5: multi-monitor no-duplication: in a selection, stateful or stateless,
\* for M monitors, when every directory drawn from has at least M eligible
\* images, the returned paths have pairwise distinct file names.
C5_NoDuplication ==
    (run.pc \in {"draw", "check", "update", "paint", "save", "done"} /\ run.wd.ok
        /\ \A dk \in DrawnFrom(run.wd, run.M) : CountOf(dirs[dk]) >= run.M)
    => \A i, j \in 1..Len(run.paths) : i # j => run.paths[i].name # run.paths[j].name

C5_Witness ==
    /\ run.selected /\ run.M = 3 /\ run.tracking /\ run.wd.left = "/w/left"
    /\ CountOf(dirs["/w/primary"]) = 3 /\ CountOf(dirs["/w/left"]) = 3
    /\ run.paths = <<PathOf("/w/primary", "B.JPG"), PathOf("/w/left", "a.jpg"),
                     PathOf("/w/primary", "c.png")>>

\* C6: all-or-nothing apply: when the selection returns fewer paths than
\* there are monitors (none at all when the directories cannot be
\* resolved), the painter is not invoked, the state is not updated, save
\* does not run and the state file stays as the run found it.
C6_AllOrNothing ==
    (run.pc # "none" /\ run.selected /\ Len(run.paths) # run.M) =>
        /\ run.painted = 0
        /\ ~run.updated
        /\ ~run.saved
        /\ disk.state = run.found
        /\ run.pc \in {"check", "done"}

C6_Witness ==
    /\ run.pc = "done" /\ run.selected /\ run.tracking /\ run.server = "wayland"
    /\ run.M = 3 /\ run.paths = <<PathOf("/w/left", "a.jpg")>>
    /\ DictHas(DictGet(state, "round_robin"), "/w/left")
    /\ disk.state.exists /\ disk.state = FileOf(DumpState(SeedDoc))

(***************************************************************************)
(* Directory resolution.                                                   *)
(***************************************************************************)
\* The tiers as rules: for a context, the field a tier takes its primary
\* from and the field it takes its left from (None: the tier has no left).
TierRule(primary, left) == [primary |-> primary, left |-> left]

TimeRule(h, d) ==
    CASE h /\ d -> TierRule("holiday_light_primary", "holiday_light_left")
      [] h /\ ~d -> TierRule("holiday_dark_primary", "holiday_dark_left")
      [] ~h /\ d -> TierRule("workday_light_primary", "workday_light_left")
      [] ~h /\ ~d -> TierRule("workday_dark_primary", "workday_dark_left")

SimpleRule(h) ==
    IF h THEN TierRule("holiday_primary", "holiday_left")
    ELSE TierRule("workday_primary", "workday_left")

\* The basic tier as stated: sunday on a holiday, primary + left otherwise.
BasicRuleStated(c, h) == IF h THEN TierRule("sunday", None) ELSE TierRule("primary", "left")

\* The basic tier: sunday on a holiday when sunday is set, primary + left
\* in every other case.
BasicRule(c, h) ==
    IF h /\ c["sunday"] # None THEN TierRule("sunday", None) ELSE TierRule("primary", "left")

Yield(c, rule) ==
    IF c[rule.primary] = None THEN Unresolved
    ELSE Resolved(c[rule.primary], IF rule.left = None THEN None ELSE c[rule.left])

\* The first of the three tiers that yields a primary.
Waterfall(c, rules) ==
    IF Yield(c, rules[1]).ok THEN Yield(c, rules[1])
    ELSE IF Yield(c, rules[2]).ok THEN Yield(c, rules[2])
    ELSE Yield(c, rules[3])

\* C10 as stated: the basic tier yields sunday (on a holiday) or primary
\* (on a workday) and nothing else; the result is that of the first tier
\* whose primary for the context is set, with the left of the same tier and
\* context, and the error is raised exactly when no tier yields a primary.
C10_WaterfallAsStated ==
    last.op = "dirs" =>
        last.result = Waterfall(cfg, <<TimeRule(last.is_holiday, last.is_day),
                                       SimpleRule(last.is_holiday),
                                       BasicRuleStated(cfg, last.is_holiday)>>)

\* C10: directory resolution waterfall: the tiers are consulted in the
\* order time-based, simple, basic; the result is that of the first tier
\* that yields a primary, where the basic tier yields sunday on a holiday
\* if sunday is set and otherwise, on any day, primary with its left; a
\* directory of another context is never returned, left comes from the
\* tier and context of primary, and the error is raised exactly when no
\* tier yields a primary.
C10_Waterfall ==
    last.op = "dirs" =>
        LET h == last.is_holiday
            d == last.is_day
            rules == <<TimeRule(h, d), SimpleRule(h), BasicRule(cfg, h)>>
            r == last.result IN
        /\ r = Waterfall(cfg, rules)
        /\ r.ok <=> \E k \in 1..3 : cfg[rules[k].primary] # None
        /\ r.ok =>
              \E k \in 1..3 :
                  /\ r.primary = rules[k].primary
                  /\ \A j \in 1..(k - 1) : cfg[rules[j].primary] = None
                  /\ r.left \in {None, rules[k].left}
                  /\ r.left = None <=> (rules[k].left = None \/ cfg[rules[k].left] = None)

C10_Witness ==
    /\ last.op = "dirs" /\ last.is_holiday /\ ~last.is_day
    /\ cfg["holiday_dark_primary"] = None /\ cfg["holiday_light_primary"] # None
    /\ cfg["holiday_primary"] = None /\ cfg["workday_primary"] # None
    /\ cfg["sunday"] = None /\ cfg["primary"] # None /\ cfg["left"] # None
    /\ Loadable(cfg)
    /\ last.result = Resolved("primary", "left")

(***************************************************************************)
(* Draws on several directories.                                           *)
(***************************************************************************)
\* C11: independent per-directory cursors: a stateful draw on one
\* directory leaves the round_robin entry of every other directory as it
\* was, and with draws on two directories interleaved (each with an empty
\* used-set) the k-th draw on a directory returns what the k-th draw would
\* return were the directory drawn from alone: image ((k - 1) mod N) + 1.
C11_IndependentCursors ==
    /\ [][\A dk \in DirKeys :
             (last'.op = "draw" /\ last'.dk = dk /\ last' # last) =>
                 \A o \in DirKeys \ {dk} :
                     /\ HasEntry(o)' <=> HasEntry(o)
                     /\ HasEntry(o) => Entry(o)' = Entry(o)]_vars
    /\ [](\A dk \in DirKeys :
             (last.op = "draw" /\ last.dk = dk /\ steady[dk] /\ CountOf(dirs[dk]) >= 1)
             => /\ last.path = PathOf(dk, KthImage(dirs[dk],
                                                  ((calls[dk] - 1) % CountOf(dirs[dk])) + 1))
                /\ HasEntry(dk)
                /\ DictGet(Entry(dk), "position") = PyInt(calls[dk] % CountOf(dirs[dk])))

\* Two draws on primary, then one on left, then the third on primary.
C11_Witness ==
    /\ last.op = "draw" /\ last.dk = "/w/primary"
    /\ calls["/w/primary"] = 3 /\ calls["/w/left"] = 2
    /\ steady["/w/primary"] /\ steady["/w/left"]
    /\ CountOf(dirs["/w/primary"]) = 3 /\ CountOf(dirs["/w/left"]) = 2
    /\ last.path = PathOf("/w/primary", "c.png")
    /\ DictGet(Entry("/w/left"), "position") = PyInt(0)

\* C12: selector policy: the draw for monitor index i is made on primary
\* when i is even, and when i is odd on left if it is present, else on
\* primary; the draws are made one after another in increasing index order
\* sharing one used-set, and the returned list keeps that order.
C12_SelectorPolicy ==
    (run.pc \in {"draw", "check", "update", "paint", "save", "done"} /\ run.wd.ok) =>
        /\ Len(run.drew) = run.idx /\ Len(run.results) = run.idx
        /\ run.selected => run.idx = run.M
        /\ \A i \in 0..(run.idx - 1) :
               /\ run.drew[i + 1] = IF i % 2 = 0 THEN run.wd.primary
                                    ELSE IF run.wd.left # "" THEN run.wd.left
                                    ELSE run.wd.primary
               /\ run.results[i + 1].ok => run.results[i + 1].dir = run.drew[i + 1]
        /\ run.paths = SelectSeq(run.results, LAMBDA p : p.ok)
        /\ run.pc \in {"draw", "check"} => used = [i \in 1..Len(run.paths) |-> run.paths[i].name]

\* Three monitors, a left directory of its own, no state.
C12_Witness ==
    /\ run.selected /\ run.M = 3 /\ run.wd = Resolved("/w/primary", "/w/left")
    /\ run.drew = <<"/w/primary", "/w/left", "/w/primary">>
    /\ ~run.tracking
    /\ Len(run.paths) = 3
    /\ run.paths[2] = PathOf("/w/left", "a.jpg")

(***************************************************************************)
(* Validation, save failures, order of a run.                              *)
(***************************************************************************)
\* C13: validation rule set: a loaded JSON object is accepted (returned as
\* the state, the file left in place) if and only if it has version (a
\* string), current_wallpapers (a mapping), round_robin (a mapping) and
\* every round_robin entry is a mapping with images (a list of strings) and
\* position (an integer); any other object is treated as corrupt: a fresh
\* state is returned and the file is set aside.
C13_ValidationRuleSet ==
    (last.op = "load" /\ last.found.exists /\ last.found.readable
        /\ Loads(last.found.data).ok /\ Loads(last.found.data).val.t = "dict")
    => LET v == Loads(last.found.data).val IN
       /\ last.raised = "none"
       /\ IF Conforms(v)
          THEN state = v /\ disk.state = last.found
          ELSE /\ state = _initialize
               /\ ~disk.state.exists
               /\ disk.backups[now].exists /\ disk.backups[now].data = last.found.data

\* C14: save never raises and cleans up: in one process, when creating the
\* directory, opening or writing the temp file, or the rename fails, save
\* returns False, no temp file is left and the state file is as it was; a
\* save that returns True leaves no temp file either.
C14_SaveCleansUp ==
    last.op = "save" =>
        /\ ~disk.temp.exists
        /\ ~last.ok => disk.state = last.before.state
        /\ last.ok => disk.state = FileOf(Dump(last.arg))
        /\ last.ok <=> (last.faults \cap {"open", "write", "rename"} = {}
                          /\ ~("mkdir" \in last.faults /\ ~last.before.state.exists
                                                     /\ ~last.before.temp.exists))

\* The steps of a run, without the load at its start.
CycleSteps == SelectSeq(run.steps, LAMBDA x : x # "Load")

\* xs holds steps of `order`, each at most once, in the order of `order`.
InOrder(xs, order) ==
    /\ \A i \in 1..Len(xs) : \E k \in 1..Len(order) : order[k] = xs[i]
    /\ \A i, j \in 1..Len(xs) :
           i < j => \A k, m \in 1..Len(order) : (order[k] = xs[i] /\ order[m] = xs[j]) => k < m

Did(step) == \E i \in 1..Len(run.steps) : run.steps[i] = step

DrawStep == run.pc = "draw" /\ run'.idx = run.idx + 1

\* What the turn drew on and what it returned.
DrewOn == run'.drew[Len(run'.drew)]
Returned == run'.results[Len(run'.results)]

\* C16: state tracking disabled: a run never reads, creates, renames or
\* writes the state file (nor its temp file, nor a backup), it holds no
\* state, and every draw of it is the stateless draw.
C16_TrackingDisabled ==
    /\ [](~run.tracking =>
             /\ state = NoState
             /\ ~Did("Load") /\ ~Did("UpdateState") /\ ~Did("Persist")
             /\ ~run.updated /\ ~run.saved)
    /\ [][~run.tracking =>
             /\ disk' = disk
             /\ DrawStep =>
                    /\ state' = NoState
                    /\ \E r \in 1..MaxFiles :
                           LET d == next_wallpaper(DrewOn, dirs[DrewOn], Extensions, NoState, used, r)
                           IN  Returned = d.path /\ used' = d.used]_vars

\* A run without state tracking, over an existing state file, has painted
\* two monitors and ended.
C16_Witness ==
    /\ ~run.tracking /\ run.pc = "done" /\ run.painted = 2
    /\ disk.state = FileOf(DumpState(SeedDoc))

\* C17: stateless mode: a draw with state = none on a directory with images
\* returns an image of the directory that is not in the used-set whenever
\* the directory has one, an image of the used-set only when all of them are
\* in it, and appends its pick to the used-set.
C17_StatelessDraw ==
    [][(DrawStep /\ state = NoState) =>
          LET all == ListImages(dirs[DrewOn], Extensions)
              free == {i \in 1..Len(all) : ~InSeq(all[i], used)}
          IN  IF ~dirs[DrewOn].isdir \/ all = <<>>
              THEN ~Returned.ok /\ used' = used
              ELSE /\ Returned.ok /\ Returned.dir = DrewOn
                   /\ InSeq(Returned.name, all)
                   /\ free # {} => ~InSeq(Returned.name, used)
                   /\ InSeq(Returned.name, used) => \A i \in 1..Len(all) : InSeq(all[i], used)
                   /\ used' = Append(used, Returned.name)
                   /\ state' = NoState]_vars

\* Three stateless draws on a directory of two images: the second is the
\* image the first left, the third is one of the two again.
C17_Witness ==
    /\ state = NoState /\ ~run.tracking /\ Len(run.results) = 3
    /\ Len(used) = 3 /\ used[1] # used[2] /\ used[3] \in {used[1], used[2]}
    /\ run.results[3].ok /\ run.results[3].name = used[3]

\* Every writer has called save and has returned, and no reader has come.
AllReturned ==
    /\ \A p \in Writers : procs[p].pc = "done" /\ procs[p].n >= 1
    /\ procs[Reader].n = 0

\* The documents of the saves that returned success.
Succeeded == {DocFor(p, procs[p].n) : p \in {q \in Writers : procs[q].ret = "True"}}

\* C18: last-writer-wins: when the concurrent saves have all returned, the
\* state file holds exactly the document of one save that returned success
\* (what it held before when none did), and a save that returned failure has
\* contributed nothing to it.
C18_LastWriterWins ==
    (fs # NoRace /\ AllReturned) =>
        /\ Succeeded # {} => RealText(fs) \in Succeeded
        /\ Succeeded = {} => RealText(fs) \in {Absent, InitialText}
        /\ \A p \in Writers : procs[p].ret = "False" => ~procs[p].touched

\* C19: position clamp: a stateful draw that finds, with the stored image
\* list equal to the current listing, a stored position that is negative
\* or not below the number of images succeeds, returns an image of the
\* directory, and leaves the stored position inside [0, N).
C19_PositionClamp ==
    \A dk \in DirKeys :
        (last.op = "draw" /\ last.dk = dk /\ last.had /\ ~last.stale
            /\ CountOf(dirs[dk]) >= 1
            /\ (last.pos < 0 \/ last.pos >= CountOf(dirs[dk])))
        => /\ last.path.ok
           /\ last.path.dir = dk /\ last.path.name \in Eligible(dirs[dk])
           /\ HasEntry(dk)
           /\ IntOf(DictGet(Entry(dk), "position")) \in 0..(CountOf(dirs[dk]) - 1)

\* The cursor a stateful draw on dk starts from: 0 for a directory without
\* an entry or with a changed listing, the stored position otherwise.
Cursor(dk, all) ==
    IF ~HasEntry(dk) \/ DictGet(Entry(dk), "images") # StrList(all) THEN 0
    ELSE IntOf(DictGet(Entry(dk), "position"))

\* The k-th image of a cyclic scan of all that starts at cursor c.
Scanned(all, c, k) == all[((c + k) % Len(all)) + 1]

\* C20: collision skip: a stateful draw on a directory with images returns
\* the first image, scanning cyclically from the stored cursor, that is not
\* in the used-set, and an image of the directory when every image is in
\* the used-set.
C20_CollisionSkip ==
    [][(DrawStep /\ state # NoState /\ dirs[DrewOn].isdir
            /\ ListImages(dirs[DrewOn], Extensions) # <<>>) =>
          LET all == ListImages(dirs[DrewOn], Extensions)
              c == Cursor(DrewOn, all)
              free == {k \in 0..(Len(all) - 1) : ~InSeq(Scanned(all, c, k), used)}
          IN  /\ Returned.ok /\ Returned.dir = DrewOn
              /\ InSeq(Returned.name, all)
              /\ free # {} =>
                    \E k \in free : /\ \A j \in free : k <= j
                                    /\ Returned.name = Scanned(all, c, k)]_vars

\* The round_robin entries of a document.
EntriesOf(doc) ==
    IF doc.t = "dict" /\ DictHas(doc, "round_robin") /\ DictGet(doc, "round_robin").t = "dict"
    THEN {DictGet(doc, "round_robin").vals[i] : i \in 1..Len(DictGet(doc, "round_robin").vals)}
    ELSE {}

\* The entries in memory and those of the state file.
StoredEntries ==
    (IF state = NoState THEN {} ELSE EntriesOf(state))
    \cup (IF disk.state.exists /\ Loads(disk.state.data).ok
          THEN EntriesOf(Loads(disk.state.data).val) ELSE {})

\* The entry of the hand-edited state file, which no draw has stored.
HandEdited(e) == e = DictGet(DictGet(SeedDoc, "round_robin"), "/w/primary")

InRange(e) ==
    /\ EntryConforms(e)
    /\ 0 <= IntOf(DictGet(e, "position"))
    /\ IntOf(DictGet(e, "position")) < Len(DictGet(e, "images").items)

\* C21: cursor invariant: after every successful stateful draw on a
\* directory the stored images are the directory's sorted listing and the
\* stored position is (index of the returned image + 1) mod N, whatever was
\* skipped; every entry the draws have stored, in memory or in the state
\* file, has 0 <= position < len(images).
C21_CursorInvariant ==
    /\ [](\A e \in StoredEntries : HandEdited(e) \/ InRange(e))
    /\ [][(DrawStep /\ state # NoState /\ Returned.ok) =>
            LET all == ListImages(dirs[DrewOn], Extensions)
                e == DictGet(DictGet(state', "round_robin"), DrewOn)
            IN  /\ all # <<>>
                /\ DictGet(e, "images") = StrList(all)
                /\ \E i \in 1..Len(all) :
                       /\ all[i] = Returned.name
                       /\ DictGet(e, "position") = PyInt(i % Len(all))]_vars

\* The second run with state tracking: the second monitor's draw on the
\* same directory skipped the image of the first, and the state was saved.
C21_Witness ==
    /\ run.tracking /\ run.n = 2 /\ run.pc = "done" /\ run.saved /\ run.M = 2
    /\ run.drew = <<"/w/primary", "/w/primary">>
    /\ Len(run.paths) = 2 /\ run.paths[1].name # run.paths[2].name
    /\ CountOf(dirs["/w/primary"]) = 3
    /\ \A e \in StoredEntries : InRange(e)

\* The directory a draw is to be made on has nothing to serve: it is
\* missing or no directory, or holds no eligible image.
NothingToServe(dk) == ~dirs[dk].isdir \/ CountOf(dirs[dk]) = 0

UpdateStep == run.pc = "update" /\ state # NoState /\ run'.pc = "paint"

\* C23: update overwrites: after update, current_wallpapers maps exactly
\* the monitors of the run, in order, to the filename of the path selected
\* for each and the timestamp of the run; nothing recorded by an earlier
\* run is left, last_run is that timestamp, and version and round_robin
\* are as before.
C23_UpdateOverwrites ==
    [][UpdateStep =>
          LET cw == DictGet(state', "current_wallpapers")
              stamp == DictGet(state', "last_run")
          IN  /\ cw.t = "dict" /\ cw.keys = SubSeq(MonitorNames, 1, run.M)
              /\ Len(run.paths) = run.M
              /\ \A i \in 1..run.M :
                     cw.vals[i] = PyDict(<<"filename", "timestamp">>,
                                         <<PyStr(run.paths[i].name), stamp>>)
              /\ stamp.t = "str"
              /\ state'.keys = state.keys
              /\ DictGet(state', "version") = DictGet(state, "version")
              /\ DictGet(state', "round_robin") = DictGet(state, "round_robin")]_vars

\* The state of a former run, with monitors DP-1 and VGA-1, was loaded;
\* the run has two monitors, DP-1 and HDMI-1.
C23_Witness ==
    /\ run.updated /\ run.pc = "paint" /\ run.M = 2
    /\ run.found = FileOf(DumpState(SeedDoc))
    /\ DictGet(state, "current_wallpapers").keys = <<"DP-1", "HDMI-1">>
    /\ DictGet(state, "last_run") = PyStr(StampB)

\* The call was left to the basic tier: neither the time-based nor the
\* simple tier has a primary for its context.
LeftToBasic ==
    /\ last.op = "dirs"
    /\ ~Yield(cfg, TimeRule(last.is_holiday, last.is_day)).ok
    /\ ~Yield(cfg, SimpleRule(last.is_holiday)).ok

\* C24 as stated: the basic tier is chosen by the context alone: a holiday
\* resolves to sunday without left and to nothing else, so that without
\* sunday it is an error even when primary is set; a workday resolves to
\* primary with its left.
C24_BasicTierAsStated ==
    LeftToBasic =>
        last.result = IF last.is_holiday THEN Yield(cfg, TierRule("sunday", None))
                      ELSE Yield(cfg, TierRule("primary", "left"))

\* C24: the basic tier: on a holiday with sunday set it resolves to sunday
\* without left; on a holiday without sunday, as on a workday, it resolves
\* to primary with its left, and is an error only when primary is not set;
\* sunday is never used on a workday.
C24_BasicTier ==
    LeftToBasic =>
        /\ (last.is_holiday /\ cfg["sunday"] # None) => last.result = Resolved("sunday", None)
        /\ (~last.is_holiday \/ cfg["sunday"] = None) =>
               last.result = Yield(cfg, TierRule("primary", "left"))
        /\ ~last.result.ok <=> (cfg["primary"] = None
                                  /\ (last.is_holiday => cfg["sunday"] = None))

\* A holiday, only the basic primary configured.
C24_Witness ==
    /\ LeftToBasic /\ last.is_holiday /\ last.is_day
    /\ cfg = DirectoryConfig({"primary"})
    /\ last.result = Resolved("primary", None)

\* C25: every accepted configuration resolves: for a DirectoryConfig that
\* passes the loader's check, get_wallpaper_dirs returns a mapping in each
\* of the four contexts.
C25_AcceptedResolves ==
    (last.op = "dirs" /\ Accepted(cfg)) => last.result.ok

\* Image n of directory dk is on a monitor: the painter was given it.
Served(dk, n) ==
    /\ run.pc = "save" /\ run.painted > 0
    /\ \E i \in 1..Len(run.paths) : run.paths[i] = PathOf(dk, n)

\* The runs draw on dk, n is an eligible image of it, and no directory the
\* runs draw on is without images.
ToBeServed(dk, n) ==
    /\ run.tracking /\ run.wd.ok
    /\ dk \in DrawnFrom(run.wd, run.M)
    /\ n \in Eligible(dirs[dk])
    /\ \A d \in DrawnFrom(run.wd, run.M) : CountOf(dirs[d]) >= 1

\* C26: no starvation across runs: over repeated stateful runs with a fixed
\* monitor count and unchanged directories, every eligible image of every
\* directory in use is served again and again, also when primary and left
\* hold files of the same names.
C26_NoStarvation ==
    \A dk \in DirKeys, n \in FileNames : []<>(ToBeServed(dk, n) => Served(dk, n))

\* C27: quarantined files are never lost: a copy made by load stays on
\* disk with its content; no later load, save or quarantine, a second one
\* within the same second included, removes or overwrites it.
C27_CopiesKept ==
    [][\A s \in 0..MaxClock :
          disk.backups[s].exists => disk'.backups[s] = disk.backups[s]]_vars

\* v is the text of a timestamp, and the time it names lies more than
\* max_age_days before the call.
OlderThan(v, max_age_days, at_minute) ==
    /\ v.t = "str"
    /\ \E i \in 1..Len(Timestamps) :
           /\ Timestamps[i].text = v.s
           /\ Timestamps[i].minutes + (max_age_days * 24 * 60) < at_minute

\* C28: cleanup_old_entries empties round_robin exactly when last_run is a
\* parseable timestamp older than max_age_days; with a recent, null or
\* unparseable last_run the state is left as it was, and no field other
\* than round_robin ever changes.
C28_CleanupOldEntries ==
    last.op = "cleanup" =>
        /\ state = IF OlderThan(DictGet(last.before, "last_run"), last.max_age_days, last.at)
                   THEN DictSet(last.before, "round_robin", EmptyDict)
                   ELSE last.before
        /\ \A k \in {"version", "last_run", "current_wallpapers"} :
               DictGet(state, k) = DictGet(last.before, k)

\* C29: a run of wallpaper.main with auto-cleanup that loaded a state whose
\* last_run is more than 30 days old saves a state from which the
\* round-robin entries of the stale state are gone.
LoadedStale == run.found = FileOf(DumpState(StaleDoc))
CarriedOver(st) ==
    \E k \in {"/w/old", "/w/primary"} :
        /\ DictHas(DictGet(st, "round_robin"), k)
        /\ DictGet(DictGet(st, "round_robin"), k) = DictGet(DictGet(StaleDoc, "round_robin"), k)
C29_AutoCleanupInRun ==
    (run.pc = "done" /\ run.saved /\ run.auto_cleanup /\ LoadedStale)
        => (disk.state = FileOf(DumpState(state)) /\ ~CarriedOver(state))

\* C30: with day_start # night_start, is_daytime(t) is true exactly when t
\* lies in the half-open interval from day_start up to but excluding
\* night_start, taken around midnight when day_start is the later one;
\* every time is light or dark and each class has a time in it.
SecondsPerDay == 24 * 60 * 60
SecondOfDay(t) == (t.hour * 60 * 60) + (t.minute * 60) + t.second
InCyclicInterval(t, from, upto) ==
    (SecondOfDay(t) - SecondOfDay(from)) % SecondsPerDay
        < (SecondOfDay(upto) - SecondOfDay(from)) % SecondsPerDay
C30_LightDark ==
    (last.op = "is_daytime" /\ cfg.day_start_time # cfg.night_start_time) =>
        /\ last.result \in BOOLEAN
        /\ last.result = InCyclicInterval(last.current_time, cfg.day_start_time,
                                          cfg.night_start_time)
        /\ \E t \in ClockTimes : is_daytime(cfg, t)
        /\ \E t \in ClockTimes : ~is_daytime(cfg, t)
C30_Witness ==
    /\ last.op = "is_daytime"
    /\ cfg.day_start_time = Time(22, 0, 0)
    /\ cfg.night_start_time = Time(6, 0, 0)
    /\ last.current_time = Time(5, 59, 59)
    /\ last.result
====
